---- MODULE Spec2Model ----
(***************************************************************************)
(* Model of the JSON authorization front-end of cedar-policy               *)
(* (cedar-policy/src/frontend/is_authorized.rs) and of the evaluation      *)
(* error type it reports (cedar-policy-core/src/evaluator/err.rs).         *)
(*                                                                         *)
(* One behaviour is one call of json_is_authorized: the input string is    *)
(* deserialized into an AuthorizationCall, get_components builds the       *)
(* request, the policy set and the entities, the authorizer evaluates      *)
(* every policy of the set and combines the outcomes, and the answer is    *)
(* wrapped into an InterfaceResult.                                        *)
(*                                                                         *)
(* Conventions: Option<T> is a sequence of length 0 (None) or 1 (Some);    *)
(* Result<T, E> is a record [ok |-> TRUE, val |-> v] or                    *)
(* [ok |-> FALSE, errs |-> e]; a JSON object whose keys may repeat in the  *)
(* text is a sequence of <<key, value>> pairs.  A string is written with   *)
(* ' where the program's message has a backquote.                          *)
(***************************************************************************)
EXTENDS Integers, Sequences, FiniteSets, TLC

VARIABLES
    input,              \* the string handed to json_is_authorized
    pc,                 \* position inside json_is_authorized
    call,               \* Option<AuthorizationCall>: the deserialized call
    request,            \* Option<Request> built by get_components
    policies,           \* the PolicySet built by get_components
    entities,           \* the Entities built by get_components
    pending,            \* ids of the policies the authorizer has not evaluated yet
    satisfied_permits,  \* ids of the permit policies found satisfied
    satisfied_forbids,  \* ids of the forbid policies found satisfied
    errors,             \* authorization errors collected so far
    result,             \* Option<InterfaceResult>: what json_is_authorized returns
    AUTHORIZER          \* Option<Authorizer>: the thread-local static

vars == <<input, pc, call, request, policies, entities, pending,
          satisfied_permits, satisfied_forbids, errors, result, AUTHORIZER>>

(***************************************************************************)
(* Bounds of the model.                                                    *)
(***************************************************************************)
\* number of distinct policy ids a "policies" map of an input may use
MaxPolicies == 3

(***************************************************************************)
(* Option and Result.                                                      *)
(***************************************************************************)
None == <<>>
Some(v) == <<v>>
IsSome(o) == Len(o) = 1
Unwrap(o) == o[1]

Ok(v) == [ok |-> TRUE, val |-> v]
Err(e) == [ok |-> FALSE, errs |-> e]

\* the elements of a sequence
Range(s) == {s[i] : i \in 1..Len(s)}

\* the keys of a JSON object given as a sequence of pairs
Keys(obj) == {obj[i][1] : i \in 1..Len(obj)}

\* some key occurs twice in the text of a JSON object
HasDuplicateKey(obj) ==
    \E i, j \in 1..Len(obj) : i < j /\ obj[i][1] = obj[j][1]

\* the map a JSON object without duplicate keys denotes
MapGet(obj, k) == obj[CHOOSE i \in 1..Len(obj) : obj[i][1] = k][2]

ToMap(obj) == [k \in Keys(obj) |-> MapGet(obj, k)]

(***************************************************************************)
(* HashMap.  The order in which the iterator of a std HashMap yields the   *)
(* entries follows from the keys of the map's hasher, which are drawn at   *)
(* random when the map is built: the same entries are iterated in any      *)
(* order, from one map to the next and from one run to the next.  A        *)
(* HashMap is the sequence of its <<key, value>> entries, the keys all     *)
(* different, in the order in which its iterator yields them.              *)
(***************************************************************************)
\* the sequences that enumerate the set S, each element once
Orders(S) ==
    {o \in [1..Cardinality(S) -> S] :
        \A i, j \in 1..Cardinality(S) : i # j => o[i] # o[j]}

\* the HashMap collected from the entries of the JSON object obj, when its
\* hasher gives the keys the iteration order order
HashMap_from(obj, order) ==
    [i \in 1..Len(order) |-> <<order[i], MapGet(obj, order[i])>>]

\* HashMap::keys, in iteration order
HashMap_keys(m) == [i \in 1..Len(m) |-> m[i][1]]

\* a set of strings as the sequence of its elements in a fixed order
RECURSIVE SetToSeq(_)
SetToSeq(S) ==
    IF S = {} THEN <<>>
    ELSE LET x == CHOOSE y \in S : TRUE IN <<x>> \o SetToSeq(S \ {x})

RECURSIVE Flatten(_)
Flatten(ss) == IF ss = <<>> THEN <<>> ELSE Head(ss) \o Flatten(Tail(ss))

(***************************************************************************)
(* 64-bit integers.  The integers of TLC are narrower than an i64, so      *)
(* an i64 is the sequence of its I64Bytes bytes in two's complement, least *)
(* significant byte first; a sequence of WideBytes bytes holds every sum,  *)
(* difference and product of two i64 exactly.                              *)
(***************************************************************************)
ByteBase == 256
I64Bytes == 8
WideBytes == 16

\* the integer n of the checker as len bytes
Digits(n, len) ==
    [i \in 1..len |->
        IF i <= 3 THEN (n \div (ByteBase ^ (i - 1))) % ByteBase
        ELSE IF i = 4 THEN ((n \div (ByteBase ^ 3)) + ByteBase) % ByteBase
        ELSE IF n < 0 THEN ByteBase - 1 ELSE 0]

I64_MIN == [i \in 1..I64Bytes |-> IF i = I64Bytes THEN 128 ELSE 0]
I64_MAX == [i \in 1..I64Bytes |-> IF i = I64Bytes THEN 127 ELSE 255]

IsNegative(x) == x[Len(x)] >= 128

\* x as len bytes with the same value
SignExtend(x, len) ==
    [i \in 1..len |-> IF i <= Len(x) THEN x[i]
                      ELSE IF IsNegative(x) THEN ByteBase - 1 ELSE 0]

Truncate(x, len) == [i \in 1..len |-> x[i]]

\* x + y + carry modulo ByteBase ^ Len(x), byte by byte from byte i on
RECURSIVE add_bytes(_, _, _, _, _)
add_bytes(x, y, i, carry, acc) ==
    IF i > Len(x) THEN acc
    ELSE add_bytes(x, y, i + 1, (x[i] + y[i] + carry) \div ByteBase,
                   Append(acc, (x[i] + y[i] + carry) % ByteBase))

Complement(x) == [i \in 1..Len(x) |-> ByteBase - 1 - x[i]]
ZeroBytes(len) == [i \in 1..len |-> 0]

wrapping_add(x, y) == add_bytes(x, y, 1, 0, <<>>)
wrapping_sub(x, y) == add_bytes(x, Complement(y), 1, 1, <<>>)
wrapping_neg(x) == add_bytes(Complement(x), ZeroBytes(Len(x)), 1, 1, <<>>)

\* the sum of the products x[i] * y[j] of column k: i + j - 1 = k
RECURSIVE column(_, _, _, _)
column(x, y, k, i) ==
    IF i > k THEN 0 ELSE x[i] * y[k - i + 1] + column(x, y, k, i + 1)

\* x * y modulo ByteBase ^ Len(x), column by column from column k on
RECURSIVE mul_bytes(_, _, _, _, _)
mul_bytes(x, y, k, carry, acc) ==
    IF k > Len(x) THEN acc
    ELSE mul_bytes(x, y, k + 1, (column(x, y, k, 1) + carry) \div ByteBase,
                   Append(acc, (column(x, y, k, 1) + carry) % ByteBase))

wrapping_mul(x, y) == mul_bytes(x, y, 1, 0, <<>>)

\* i64::checked_add, checked_sub, checked_mul and checked_neg: None on overflow
checked_add(a, b) ==
    IF IsNegative(a) = IsNegative(b)
       /\ IsNegative(wrapping_add(a, b)) # IsNegative(a)
    THEN None ELSE Some(wrapping_add(a, b))

checked_sub(a, b) ==
    IF IsNegative(a) # IsNegative(b)
       /\ IsNegative(wrapping_sub(a, b)) # IsNegative(a)
    THEN None ELSE Some(wrapping_sub(a, b))

checked_mul(a, b) ==
    LET wide == wrapping_mul(SignExtend(a, WideBytes),
                             SignExtend(b, WideBytes))
    IN IF wide = SignExtend(Truncate(wide, I64Bytes), WideBytes)
       THEN Some(Truncate(wide, I64Bytes)) ELSE None

checked_neg(a) == IF a = I64_MIN THEN None ELSE Some(wrapping_neg(a))

\* the quotient of the unsigned x by ten, from byte i down, and what is left
RECURSIVE div_ten(_, _, _, _)
div_ten(x, i, rem, acc) ==
    IF i = 0 THEN [quot |-> acc, rem |-> rem]
    ELSE div_ten(x, i - 1, (rem * ByteBase + x[i]) % 10,
                 [acc EXCEPT ![i] = (rem * ByteBase + x[i]) \div 10])

\* the decimal digits of the unsigned x
RECURSIVE unsigned_to_string(_)
unsigned_to_string(x) ==
    IF x = ZeroBytes(Len(x)) THEN ""
    ELSE unsigned_to_string(div_ten(x, Len(x), 0, x).quot)
         \o ToString(div_ten(x, Len(x), 0, x).rem)

\* Display of an i64
i64_to_string(a) ==
    IF a = ZeroBytes(Len(a)) THEN "0"
    ELSE IF IsNegative(a) THEN "-" \o unsigned_to_string(wrapping_neg(a))
    ELSE unsigned_to_string(a)

(***************************************************************************)
(* Entity uids and their JSON form.                                        *)
(***************************************************************************)
Uid(ty, eid) == [ty |-> ty, eid |-> eid]
JsonUid(ty, id) == [type |-> ty, id |-> id]

\* an entity type name parses when it is a non-empty identifier
IsValidTypeName(s) == s # ""

EntityUid_from_json(j) ==
    IF IsValidTypeName(j.type)
    THEN Ok(Uid(j.type, j.id))
    ELSE Err("invalid entity type name '" \o j.type \o "'")

EntityUid_to_string(u) == u.ty \o "::\"" \o u.eid \o "\""

Alice == Uid("User", "alice")
Door == Uid("Photo", "door")
View == Uid("Photo", "view")

(***************************************************************************)
(* Evaluation errors (evaluator/err.rs).  An EvaluationError is an error   *)
(* kind and an optional advice string.                                     *)
(***************************************************************************)
record_attr_does_not_exist(attr, alternatives) ==
    [error_kind |-> [tag |-> "RecordAttrDoesNotExist", attr |-> attr,
                     alternatives |-> alternatives],
     advice |-> None]

entity_does_not_exist(euid) ==
    [error_kind |-> [tag |-> "EntityDoesNotExist", euid |-> euid],
     advice |-> None]

entity_attr_does_not_exist(entity, attr) ==
    [error_kind |-> [tag |-> "EntityAttrDoesNotExist", entity |-> entity,
                     attr |-> attr],
     advice |-> None]

unspecified_entity_access(attr) ==
    [error_kind |-> [tag |-> "UnspecifiedEntityAccess", attr |-> attr],
     advice |-> None]

type_error(expected, actual) ==
    [error_kind |-> [tag |-> "TypeError", expected |-> expected,
                     actual |-> actual],
     advice |-> None]

type_error_single(expected, actual) == type_error(<<expected>>, actual)

type_error_with_advice(expected, actual, advice) ==
    [error_kind |-> [tag |-> "TypeError", expected |-> expected,
                     actual |-> actual],
     advice |-> Some(advice)]

type_error_with_advice_single(expected, actual, advice) ==
    type_error_with_advice(<<expected>>, actual, advice)

wrong_num_arguments(function_name, expected, actual) ==
    [error_kind |-> [tag |-> "WrongNumArguments",
                     function_name |-> function_name, expected |-> expected,
                     actual |-> actual],
     advice |-> None]

unlinked_slot(id) ==
    [error_kind |-> [tag |-> "UnlinkedSlot", id |-> id], advice |-> None]

failed_extension_function_application(extension_name, msg) ==
    [error_kind |-> [tag |-> "FailedExtensionFunctionApplication",
                     extension_name |-> extension_name, msg |-> msg],
     advice |-> None]

\* a NonValue error that is built like the other errors
non_value_without_advice(e) ==
    [error_kind |-> [tag |-> "NonValue", e |-> e], advice |-> None]

\* e is the Display of the expression
non_value(e) ==
    [error_kind |-> [tag |-> "NonValue", e |-> e],
     advice |-> Some("consider using the partial evaluation APIs")]

recursion_limit == [error_kind |-> [tag |-> "RecursionLimit"], advice |-> None]

\* impl From<ExtensionFunctionLookupError> for EvaluationError and
\* impl From<RestrictedExprError> for EvaluationError: the error err of the
\* kind tag, [msg, help, code] with its message, optional help and code
EvaluationError_from(tag, err) ==
    [error_kind |-> [tag |-> tag, err |-> err], advice |-> None]

\* EvaluationError::set_advice
set_advice(e, advice) == [e EXCEPT !.advice = Some(advice)]

\* Display of a value
Value_to_string(v) ==
    IF v.ty = "long" THEN i64_to_string(v.val)
    ELSE IF v.ty = "bool" THEN (IF v.val THEN "true" ELSE "false")
    ELSE "\"" \o v.val \o "\""

\* An IntegerOverflowError is [tag |-> "BinaryOp", op, arg1, arg2],
\* [tag |-> "Multiplication", arg, constant] or [tag |-> "UnaryOp", op, arg].

\* a Display that names every overflow the same way
IntegerOverflowError_to_string_unnamed(e) ==
    "integer overflow while attempting to perform an operation"

\* the #[error(...)] message of an IntegerOverflowError
IntegerOverflowError_to_string(e) ==
    CASE e.tag = "BinaryOp" ->
            "integer overflow while attempting to "
            \o (CASE e.op = "Add" -> "add"
                  [] e.op = "Sub" -> "subtract"
                  [] OTHER -> "perform an operation on")
            \o " the values '" \o Value_to_string(e.arg1)
            \o "' and '" \o Value_to_string(e.arg2) \o "'"
      [] e.tag = "Multiplication" ->
            "integer overflow while attempting to multiply '"
            \o Value_to_string(e.arg) \o "' by '"
            \o i64_to_string(e.constant) \o "'"
      [] e.tag = "UnaryOp" ->
            "integer overflow while attempting to "
            \o (CASE e.op = "Neg" -> "negate"
                  [] OTHER -> "perform an operation on")
            \o " the value '" \o Value_to_string(e.arg) \o "'"

\* impl From<IntegerOverflowError> for EvaluationError
EvaluationError_from_IntegerOverflowError(err) ==
    [error_kind |-> [tag |-> "IntegerOverflow", err |-> err],
     advice |-> None]

\* Itertools::join: the strings of a sequence, with sep between them
RECURSIVE join(_, _)
join(ss, sep) ==
    IF ss = <<>> THEN ""
    ELSE IF Len(ss) = 1 THEN ss[1]
    ELSE ss[1] \o sep \o join(Tail(ss), sep)

\* helper function for pretty-printing type errors
pretty_type_error(expected, actual) ==
    IF Len(expected) = 1
    THEN "type error: expected " \o expected[1] \o ", got " \o actual
    ELSE "type error: expected one of [" \o join(expected, ", ")
         \o "], got " \o actual

\* the #[error(...)] message of an EvaluationErrorKind
EvaluationErrorKind_to_string(k) ==
    CASE k.tag = "EntityDoesNotExist" ->
            "entity '" \o EntityUid_to_string(k.euid) \o "' does not exist"
      [] k.tag = "EntityAttrDoesNotExist" ->
            "'" \o EntityUid_to_string(k.entity)
            \o "' does not have the attribute '" \o k.attr \o "'"
      [] k.tag = "UnspecifiedEntityAccess" ->
            "cannot access attribute '" \o k.attr \o "' of unspecified entity"
      [] k.tag = "RecordAttrDoesNotExist" ->
            "record does not have the attribute '" \o k.attr \o "'"
      [] k.tag \in {"FailedExtensionFunctionLookup",
                    "InvalidRestrictedExpression"} -> k.err.msg
      [] k.tag = "WrongNumArguments" ->
            "wrong number of arguments provided to extension function '"
            \o k.function_name \o "': expected " \o ToString(k.expected)
            \o ", got " \o ToString(k.actual)
      [] k.tag = "UnlinkedSlot" ->
            "template slot '" \o k.id \o "' was not linked"
      [] k.tag = "FailedExtensionFunctionApplication" ->
            "error while evaluating '" \o k.extension_name
            \o "' extension function: " \o k.msg
      [] k.tag = "NonValue" ->
            "the expression contains unknown(s): '" \o k.e \o "'"
      [] k.tag = "TypeError" -> pretty_type_error(k.expected, k.actual)
      [] k.tag = "RecursionLimit" -> "recursion limit reached"
      [] k.tag = "IntegerOverflow" -> IntegerOverflowError_to_string(k.err)

\* #[error("{error_kind}")]: an EvaluationError displays as its kind
EvaluationError_to_string(e) == EvaluationErrorKind_to_string(e.error_kind)

\* the #[diagnostic(help(...))] of an EvaluationErrorKind: the available
\* attributes in the Debug form of the list, the help of the error inside
\* for a transparent kind, none otherwise
EvaluationErrorKind_help(k) ==
    CASE k.tag = "RecordAttrDoesNotExist" ->
            Some("available attributes: ["
                 \o join([i \in 1..Len(k.alternatives) |->
                            "\"" \o k.alternatives[i] \o "\""], ", ")
                 \o "]")
      [] k.tag \in {"FailedExtensionFunctionLookup",
                    "InvalidRestrictedExpression"} -> k.err.help
      [] OTHER -> None

\* a help that leaves the advice out when the kind has a help
help_without_advice(e) ==
    IF IsSome(EvaluationErrorKind_help(e.error_kind))
    THEN EvaluationErrorKind_help(e.error_kind)
    ELSE e.advice

\* impl Diagnostic for EvaluationError: help
help(e) ==
    LET kind_help == EvaluationErrorKind_help(e.error_kind) IN
    CASE IsSome(kind_help) /\ ~IsSome(e.advice) -> kind_help
      [] ~IsSome(kind_help) /\ IsSome(e.advice) -> e.advice
      [] IsSome(kind_help) /\ IsSome(e.advice) ->
            Some(Unwrap(kind_help) \o "; " \o Unwrap(e.advice))
      [] OTHER -> None

\* impl Diagnostic for EvaluationError: code, forwarded to the kind; no kind
\* declares a code, and a transparent kind has the code of the error inside
code(e) ==
    IF e.error_kind.tag \in {"FailedExtensionFunctionLookup",
                             "InvalidRestrictedExpression"}
    THEN e.error_kind.err.code
    ELSE None

(***************************************************************************)
(* Policies.  A policy text is parsed into                                 *)
(*   [effect, principal, resource, cond]                                   *)
(* where a scope constraint is [op |-> "any"], [op |-> "eq", uid |-> u] or *)
(* [op |-> "eq_slot", slot |-> s] (a template slot), and cond is the       *)
(* expression of the when clause.                                          *)
(***************************************************************************)
AnyEntity == [op |-> "any"]
Eq(u) == [op |-> "eq", uid |-> u]
EqSlot(s) == [op |-> "eq_slot", slot |-> s]

Lit(b) == [op |-> "lit", b |-> b]
GetContextAttr(a) == [op |-> "context_attr", attr |-> a]

SrcPermitAll == "permit(principal, action, resource);"
SrcPermitAlice == "permit(principal == User::\"alice\", action, resource);"
SrcForbidAliceDoor ==
    "forbid(principal == User::\"alice\", action, resource == Photo::\"door\");"
SrcPermitAuth ==
    "permit(principal, action, resource) when { context.is_authenticated };"
SrcForbidAuth ==
    "forbid(principal, action, resource) when { context.is_authenticated };"
SrcPermitAliceAuthIp ==
    "permit(principal == User::\"alice\", action, resource) when { "
    \o "context.is_authenticated && "
    \o "context.source_ip.isInRange(ip(\"222.222.222.0/24\")) };"
SrcSyntaxError == "permit(principal, action, resource"
SrcTemplate == "permit(principal == ?principal, action, resource);"
SrcTemplateBoth ==
    "permit(principal == ?principal, action, resource == ?resource);"

\* the policy texts that the inputs of the model are built from
StaticSources ==
    {SrcPermitAll, SrcPermitAlice, SrcForbidAliceDoor, SrcPermitAuth,
     SrcForbidAuth}

\* the parser (an external collaborator): text to syntax tree
parse_policy_text(src) ==
    CASE src = SrcPermitAll ->
            Ok([effect |-> "permit", principal |-> AnyEntity, resource |-> AnyEntity,
                cond |-> Lit(TRUE)])
      [] src = SrcPermitAlice ->
            Ok([effect |-> "permit", principal |-> Eq(Alice), resource |-> AnyEntity,
                cond |-> Lit(TRUE)])
      [] src = SrcForbidAliceDoor ->
            Ok([effect |-> "forbid", principal |-> Eq(Alice),
                resource |-> Eq(Door), cond |-> Lit(TRUE)])
      [] src = SrcPermitAuth ->
            Ok([effect |-> "permit", principal |-> AnyEntity, resource |-> AnyEntity,
                cond |-> GetContextAttr("is_authenticated")])
      [] src = SrcForbidAuth ->
            Ok([effect |-> "forbid", principal |-> AnyEntity, resource |-> AnyEntity,
                cond |-> GetContextAttr("is_authenticated")])
      [] src = SrcPermitAliceAuthIp ->
            Ok([effect |-> "permit", principal |-> Eq(Alice),
                resource |-> AnyEntity,
                cond |-> [op |-> "and",
                          arg1 |-> GetContextAttr("is_authenticated"),
                          arg2 |-> [op |-> "isInRange",
                                    arg1 |-> GetContextAttr("source_ip"),
                                    arg2 |-> [op |-> "ip",
                                              arg |-> "222.222.222.0/24"]]]])
      [] src = SrcTemplate ->
            Ok([effect |-> "permit", principal |-> EqSlot("?principal"),
                resource |-> AnyEntity, cond |-> Lit(TRUE)])
      [] src = SrcTemplateBoth ->
            Ok([effect |-> "permit", principal |-> EqSlot("?principal"),
                resource |-> EqSlot("?resource"), cond |-> Lit(TRUE)])
      [] OTHER -> Err(<<"unexpected end of input">>)

\* the slots a syntax tree leaves open
Slots(ast) ==
    (IF ast.principal.op = "eq_slot" THEN {ast.principal.slot} ELSE {})
    \cup (IF ast.resource.op = "eq_slot" THEN {ast.resource.slot} ELSE {})

\* Policy::parse(Some(id), src): a static policy, or the parse errors
Policy_parse(id, src) ==
    LET r == parse_policy_text(src) IN
    IF ~r.ok THEN r
    ELSE IF Slots(r.val) # {}
    THEN Err(<<"expected a static policy, got a template containing the slot "
               \o (CHOOSE s \in Slots(r.val) : TRUE)>>)
    ELSE Ok([id |-> id, ast |-> r.val])

\* Template::parse(Some(id), src)
Template_parse(id, src) ==
    LET r == parse_policy_text(src) IN
    IF ~r.ok THEN r ELSE Ok([id |-> id, ast |-> r.val])

(***************************************************************************)
(* PolicySet: the static and linked policies and the templates, by id.     *)
(***************************************************************************)
PolicySet_new == [policies |-> <<>>, templates |-> <<>>]

PolicySet_ids(ps) == DOMAIN ps.policies \cup DOMAIN ps.templates

PolicySet_add(ps, p) ==
    IF p.id \in PolicySet_ids(ps)
    THEN Err("duplicate template or policy id '" \o p.id \o "'")
    ELSE Ok([ps EXCEPT !.policies = @ @@ (p.id :> p.ast)])

PolicySet_add_template(ps, t) ==
    IF t.id \in PolicySet_ids(ps)
    THEN Err("duplicate template or policy id '" \o t.id \o "'")
    ELSE Ok([ps EXCEPT !.templates = @ @@ (t.id :> t.ast)])

\* a scope constraint with its slot filled in
LinkConstraint(c, vals) == IF c.op = "eq_slot" THEN Eq(vals[c.slot]) ELSE c

\* PolicySet::link(template_id, new_id, vals)
PolicySet_link(ps, template_id, new_id, vals) ==
    IF template_id \notin DOMAIN ps.templates
    THEN Err("unable to link template: failed to find a template with id '"
             \o template_id \o "'")
    ELSE LET t == ps.templates[template_id] IN
    IF Slots(t) # DOMAIN vals
    THEN Err("unable to link template: the following slots were not provided "
             \o "as arguments or were provided and are not in the template")
    ELSE IF new_id \in PolicySet_ids(ps)
    THEN Err("unable to link template: template-linked policy id '" \o new_id
             \o "' conflicts with an existing policy id")
    ELSE Ok([ps EXCEPT !.policies = @ @@ (new_id :>
                [t EXCEPT !.principal = LinkConstraint(@, vals),
                          !.resource = LinkConstraint(@, vals)])])

\* PolicySet::from_str: a string of concatenated policies, given as the
\* sequence of the policy texts it holds; the i-th text gets the id policy<i-1>
RECURSIVE PolicySet_from_texts(_, _, _, _)
PolicySet_from_texts(srcs, i, ps, errs) ==
    IF i > Len(srcs)
    THEN (IF errs = <<>> THEN Ok(ps) ELSE Err(errs))
    ELSE LET id == "policy" \o ToString(i - 1)
             r == parse_policy_text(srcs[i])
         IN IF ~r.ok
            THEN PolicySet_from_texts(srcs, i + 1, ps, errs \o r.errs)
            ELSE IF Slots(r.val) = {}
            THEN PolicySet_from_texts(srcs, i + 1,
                    [ps EXCEPT !.policies = @ @@ (id :> r.val)], errs)
            ELSE PolicySet_from_texts(srcs, i + 1,
                    [ps EXCEPT !.templates = @ @@ (id :> r.val)], errs)

PolicySet_from_str(srcs) == PolicySet_from_texts(srcs, 1, PolicySet_new, <<>>)

(***************************************************************************)
(* Schema, context, request and entities, as get_components builds them.   *)
(***************************************************************************)
\* A schema declares entity types and actions, an action with the entity
\* types of the principals and the resources it applies to; the actions have
\* the entity type Action and a context without attributes.
Schema_from_json_value(v) ==
    IF v.wellformed THEN Ok(v) ELSE Err("failed to parse schema")

\* the actions a schema declares, and the declaration of one of them
Schema_actions(schema) ==
    {Uid("Action", schema.actions[i].id) : i \in 1..Len(schema.actions)}

Schema_action(schema, action) ==
    schema.actions[CHOOSE i \in 1..Len(schema.actions) :
                        Uid("Action", schema.actions[i].id) = action]

\* a JSON value of the context as a value; an extension call must name a
\* registered extension function
IsRestrictedValue(j) == j.kind = "bool" \/ (j.kind = "extn" /\ j.fn = "ip")

JsonToValue(j) ==
    IF j.kind = "bool" THEN [ty |-> "bool", val |-> j.b]
    ELSE [ty |-> "ipaddr", val |-> j.arg]

\* the attribute names of the contexts of the model, in sorted order
ContextAttrs == <<"is_authenticated", "source_ip">>

\* Context::from_json_value: with a schema and an action, the context is
\* parsed as the context of that action in the schema
Context_from_json_value(ctx, schema_and_action) ==
    IF IsSome(schema_and_action)
        /\ Unwrap(schema_and_action)[2]
                \notin Schema_actions(Unwrap(schema_and_action)[1])
    THEN Err("action '" \o EntityUid_to_string(Unwrap(schema_and_action)[2])
             \o "' does not exist in the supplied schema")
    ELSE IF IsSome(schema_and_action) /\ DOMAIN ctx # {}
    THEN Err("while parsing context, record attribute '"
             \o ContextAttrs[CHOOSE i \in 1..Len(ContextAttrs) :
                    /\ ContextAttrs[i] \in DOMAIN ctx
                    /\ \A j \in 1..(i - 1) : ContextAttrs[j] \notin DOMAIN ctx]
             \o "' should not exist according to the schema")
    ELSE IF \A k \in DOMAIN ctx : IsRestrictedValue(ctx[k])
    THEN Ok([k \in DOMAIN ctx |-> JsonToValue(ctx[k])])
    ELSE Err("extension function does not exist")

\* Request::new: with a schema, the request is validated against it
Request_new(principal, action, resource, context, schema) ==
    IF IsSome(schema) /\ Unwrap(action) \notin Schema_actions(Unwrap(schema))
    THEN Err("request's action '" \o EntityUid_to_string(Unwrap(action))
             \o "' is not declared in the schema")
    ELSE IF IsSome(schema) /\ IsSome(principal)
            /\ Unwrap(principal).ty \notin Range(
                    Schema_action(Unwrap(schema), Unwrap(action)).principal_types)
    THEN Err("principal type '" \o Unwrap(principal).ty
             \o "' is not valid for '" \o EntityUid_to_string(Unwrap(action))
             \o "'")
    ELSE IF IsSome(schema) /\ IsSome(resource)
            /\ Unwrap(resource).ty \notin Range(
                    Schema_action(Unwrap(schema), Unwrap(action)).resource_types)
    THEN Err("resource type '" \o Unwrap(resource).ty
             \o "' is not valid for '" \o EntityUid_to_string(Unwrap(action))
             \o "'")
    ELSE Ok([principal |-> principal, action |-> action,
             resource |-> resource, context |-> context])

\* a closure that stops at the parents
AncestorClosure_parents_only(parents, S, n) == S

\* the ancestors of an entity: its parents, closed transitively
RECURSIVE AncestorClosure(_, _, _)
AncestorClosure(parents, S, n) ==
    IF n = 0 THEN S
    ELSE AncestorClosure(parents,
            S \cup UNION {parents[x] : x \in S \cap DOMAIN parents}, n - 1)

\* the entity of an action that a schema declares
ActionEntity == [attrs |-> <<>>, ancestors |-> {}]

\* Entities::from_json_value: the entries of the JSON list, by uid; with a
\* schema, an entry must have an entity type that the schema declares, and
\* the actions of the schema are entities too
Entities_from_json_value(json, schema) ==
    LET uids == [i \in 1..Len(json) |-> EntityUid_from_json(json[i].uid)]
        undeclared(i) == /\ IsSome(schema)
                         /\ uids[i].ok
                         /\ uids[i].val.ty \notin Range(Unwrap(schema).entity_types)
        bad == {i \in 1..Len(json) : ~uids[i].ok \/ undeclared(i)}
        first_bad == CHOOSE i \in bad : \A j \in bad : i <= j
        dups == {i \in 1..Len(json) :
                    \E j \in 1..(i - 1) : json[j].uid = json[i].uid}
        actions == IF IsSome(schema) THEN Schema_actions(Unwrap(schema))
                   ELSE {}
    IN IF bad # {}
       THEN Err("error during entity deserialization: "
                \o (IF ~uids[first_bad].ok THEN uids[first_bad].errs
                    ELSE "entity '" \o EntityUid_to_string(uids[first_bad].val)
                         \o "' has type '" \o uids[first_bad].val.ty
                         \o "' which is not declared in the schema"))
       ELSE IF dups # {}
       THEN Err("duplicate entity entry '" \o EntityUid_to_string(
                    uids[CHOOSE i \in dups : \A j \in dups : i <= j].val) \o "'")
       ELSE LET all == {uids[i].val : i \in 1..Len(json)}
                idx(u) == CHOOSE i \in 1..Len(json) : uids[i].val = u
                parents == [u \in all |->
                    {EntityUid_from_json(p).val : p \in Range(json[idx(u)].parents)}]
            IN Ok([u \in all \cup actions |->
                    IF u \in all
                    THEN [attrs |-> ToMap(json[idx(u)].attrs),
                          ancestors |->
                            AncestorClosure(parents, parents[u], Len(json))]
                    ELSE ActionEntity])

Entities_empty == <<>>

\* Entities::is_ancestor_of(ancestor, descendant)
is_ancestor_of(ents, a, d) == d \in DOMAIN ents /\ a \in ents[d].ancestors

(***************************************************************************)
(* Links: the instantiations of one template link, without duplicate slot. *)
(***************************************************************************)
\* the characters of the slot names, in the order of their bytes
ByteOrder == "?abcdefghijklmnopqrstuvwxyz"

byte_of(str, i) ==
    CHOOSE b \in 1..Len(ByteOrder) :
        SubSeq(ByteOrder, b, b) = SubSeq(str, i, i)

\* str::cmp is Less: at the first place where the strings differ, a has the
\* smaller byte or has ended
str_less(a, b) ==
    \E i \in 1..Len(b) :
        /\ i <= Len(a) + 1
        /\ SubSeq(a, 1, i - 1) = SubSeq(b, 1, i - 1)
        /\ i > Len(a) \/ byte_of(a, i) < byte_of(b, i)

\* slots.sort(): the elements of the list, the smaller before the greater
slice_sort(v) ==
    [k \in 1..Len(v) |->
        CHOOSE s \in Range(v) :
            LET before == Cardinality({i \in 1..Len(v) : str_less(v[i], s)})
                equal == Cardinality({i \in 1..Len(v) : v[i] = s})
            IN before < k /\ k <= before + equal]

\* Itertools::dedup_with_count: every run of equal consecutive elements as
\* the pair of its length and its element
dedup_with_count(v) ==
    LET starts == {i \in 1..Len(v) : i = 1 \/ v[i - 1] # v[i]}
        start(k) == CHOOSE i \in starts :
                        Cardinality({j \in starts : j < i}) = k - 1
        length(i) == CHOOSE n \in 1..(Len(v) - i + 1) :
                        /\ \A j \in i..(i + n - 1) : v[j] = v[i]
                        /\ i + n > Len(v) \/ v[i + n] # v[i]
    IN [k \in 1..Cardinality(starts) |-> <<length(start(k)), v[start(k)]>>]

\* the slots of the links, in the order of the list
link_slots(links) == [i \in 1..Len(links) |-> links[i].slot]

\* the elements of the counted runs
run_elements(runs) == [k \in 1..Len(runs) |-> runs[k][2]]

\* a conversion that reports only the slots that occur exactly twice
Links_try_from_counting_pairs(links) ==
    LET duplicates == run_elements(SelectSeq(
                        dedup_with_count(slice_sort(link_slots(links))),
                        LAMBDA run : run[1] = 2))
    IN IF duplicates = <<>> THEN Ok(links) ELSE Err(duplicates)

\* impl TryFrom<Vec<Link>> for Links
Links_try_from(links) ==
    LET duplicates == run_elements(SelectSeq(
                        dedup_with_count(slice_sort(link_slots(links))),
                        LAMBDA run : run[1] # 1))
    IN IF duplicates = <<>> THEN Ok(links) ELSE Err(duplicates)

\* the Display of DuplicateLinkError::Duplicates
RECURSIVE JoinQuoted(_)
JoinQuoted(ss) ==
    IF ss = <<>> THEN ""
    ELSE IF Len(ss) = 1 THEN "'" \o ss[1] \o "'"
    ELSE "'" \o ss[1] \o "', " \o JoinQuoted(Tail(ss))

DuplicateLinkError_to_string(dups) ==
    "duplicate instantiations of the slot(s): " \o JoinQuoted(dups)

(***************************************************************************)
(* Building the policy set and the entities of a slice.                    *)
(***************************************************************************)
parse_instantiation(v) ==
    IF v.slot \notin {"?principal", "?resource"}
    THEN Err(<<"Slot must by \"?principal\" or \"?resource\"">>)
    ELSE IF IsValidTypeName(v.value.ty)
    THEN Ok(<<v.slot, Uid(v.value.ty, v.value.eid)>>)
    ELSE Err(<<"invalid entity type name '" \o v.value.ty \o "'">>)

\* a policy id parses from every string
PolicyId_from_str(s) == Ok(s)

\* a loop that passes over the links that do not parse
RECURSIVE collect_vals_skipping_errors(_, _, _)
collect_vals_skipping_errors(links, i, vals) ==
    IF i > Len(links) THEN Ok(vals)
    ELSE LET r == parse_instantiation(links[i]) IN
         IF ~r.ok THEN collect_vals_skipping_errors(links, i + 1, vals)
         ELSE collect_vals_skipping_errors(links, i + 1,
                [s \in DOMAIN vals \cup {r.val[1]} |->
                    IF s = r.val[1] THEN r.val[2] ELSE vals[s]])

\* the loop of parse_instantiations over the links: the first error, or the
\* map from slot to entity
RECURSIVE collect_vals(_, _, _)
collect_vals(links, i, vals) ==
    IF i > Len(links) THEN Ok(vals)
    ELSE LET r == parse_instantiation(links[i]) IN
         IF ~r.ok THEN r
         ELSE collect_vals(links, i + 1,
                [s \in DOMAIN vals \cup {r.val[1]} |->
                    IF s = r.val[1] THEN r.val[2] ELSE vals[s]])

\* a parse_instantiations that drops the error of policies.link
parse_instantiations_dropping_link_error(ps, instantiation) ==
    LET vals == collect_vals(instantiation.instantiations, 1, <<>>) IN
    IF ~vals.ok THEN [policies |-> ps, errs |-> vals.errs]
    ELSE LET l == PolicySet_link(ps, instantiation.template_id,
                                 instantiation.result_policy_id, vals.val)
         IN [policies |-> IF l.ok THEN l.val ELSE ps, errs |-> <<>>]

\* parse_instantiations(&mut policies, instantiation): the policy set after
\* the call and the errors it returns (none when it returns Ok)
parse_instantiations(ps, instantiation) ==
    LET template_id == PolicyId_from_str(instantiation.template_id)
        instance_id == PolicyId_from_str(instantiation.result_policy_id)
    IN IF ~template_id.ok \/ ~instance_id.ok
       THEN [policies |-> ps,
             errs |-> (IF template_id.ok THEN <<>> ELSE template_id.errs)
                      \o (IF instance_id.ok THEN <<>> ELSE instance_id.errs)]
       ELSE LET vals == collect_vals(instantiation.instantiations, 1, <<>>) IN
            IF ~vals.ok THEN [policies |-> ps, errs |-> vals.errs]
            ELSE LET l == PolicySet_link(ps, template_id.val, instance_id.val,
                                         vals.val)
                 IN IF l.ok THEN [policies |-> l.val, errs |-> <<>>]
                    ELSE [policies |-> ps,
                          errs |-> <<"Error instantiating template: " \o l.errs>>]

\* a loop over the policies map that ends at the first error
RECURSIVE add_policies_until_error(_, _, _, _)
add_policies_until_error(ids, srcs, ps, errs) ==
    IF ids = <<>> \/ errs # <<>> THEN [policies |-> ps, errs |-> errs]
    ELSE LET id == Head(ids)
             p == Policy_parse(id, srcs[id])
         IN IF ~p.ok
            THEN add_policies_until_error(Tail(ids), srcs, ps,
                    errs \o <<"couldn't parse policy with id '" \o id \o "'">>
                         \o p.errs)
            ELSE LET a == PolicySet_add(ps, p.val) IN
                 IF a.ok
                 THEN add_policies_until_error(Tail(ids), srcs, a.val, errs)
                 ELSE add_policies_until_error(Tail(ids), srcs, ps,
                        errs \o <<"couldn't add policy to set due to error: "
                                  \o a.errs>>)

\* the loop over the policies map: ids are the keys of the map in its
\* iteration order, srcs the text under each
RECURSIVE add_policies(_, _, _, _)
add_policies(ids, srcs, ps, errs) ==
    IF ids = <<>> THEN [policies |-> ps, errs |-> errs]
    ELSE LET id == Head(ids)
             p == Policy_parse(id, srcs[id])
         IN IF ~p.ok
            THEN add_policies(Tail(ids), srcs, ps,
                    errs \o <<"couldn't parse policy with id '" \o id \o "'">>
                         \o p.errs)
            ELSE LET a == PolicySet_add(ps, p.val) IN
                 IF a.ok THEN add_policies(Tail(ids), srcs, a.val, errs)
                 ELSE add_policies(Tail(ids), srcs, ps,
                        errs \o <<"couldn't add policy to set due to error: "
                                  \o a.errs>>)

\* a loop over the templates map that drops the error of add_template
RECURSIVE add_templates_dropping_add_error(_, _, _, _)
add_templates_dropping_add_error(ids, srcs, ps, errs) ==
    IF ids = <<>> THEN [policies |-> ps, errs |-> errs]
    ELSE LET id == Head(ids)
             t == Template_parse(id, srcs[id])
         IN IF ~t.ok
            THEN add_templates_dropping_add_error(Tail(ids), srcs, ps,
                    errs \o <<"couldn't parse policy with id '" \o id \o "'">>
                         \o t.errs)
            ELSE LET a == PolicySet_add_template(ps, t.val) IN
                 add_templates_dropping_add_error(Tail(ids), srcs,
                    IF a.ok THEN a.val ELSE ps, errs)

\* the loop over the templates map
RECURSIVE add_templates(_, _, _, _)
add_templates(ids, srcs, ps, errs) ==
    IF ids = <<>> THEN [policies |-> ps, errs |-> errs]
    ELSE LET id == Head(ids)
             t == Template_parse(id, srcs[id])
         IN IF ~t.ok
            THEN add_templates(Tail(ids), srcs, ps,
                    errs \o <<"couldn't parse policy with id '" \o id \o "'">>
                         \o t.errs)
            ELSE LET a == PolicySet_add_template(ps, t.val) IN
                 IF a.ok THEN add_templates(Tail(ids), srcs, a.val, errs)
                 ELSE add_templates(Tail(ids), srcs, ps,
                        errs \o <<"couldn't add policy to set due to error: "
                                  \o a.errs>>)

\* the end of the loops: the policy set, or the errors collected
policy_set_or_errs(b) == IF b.errs = <<>> THEN Ok(b.policies) ELSE Err(b.errs)

\* if let Some(templates) = templates { ... }, after the loop over the policies
add_templates_if_some(templates, a) ==
    IF IsSome(templates)
    THEN add_templates(HashMap_keys(Unwrap(templates)),
                       ToMap(Unwrap(templates)), a.policies, a.errs)
    ELSE a

\* pols and the templates are HashMaps: the two loops go through them in
\* their iteration order
parse_policy_set_from_individual_policies(pols, templates) ==
    policy_set_or_errs(add_templates_if_some(templates,
        add_policies(HashMap_keys(pols), ToMap(pols), PolicySet_new, <<>>)))

\* a loop that ends at the first error
RECURSIVE link_all_until_error(_, _, _, _)
link_all_until_error(insts, i, ps, errs) ==
    IF i > Len(insts) \/ errs # <<>> THEN [policies |-> ps, errs |-> errs]
    ELSE LET r == parse_instantiations(ps, insts[i]) IN
         link_all_until_error(insts, i + 1, r.policies, errs \o r.errs)

\* the loop of try_into over the template instantiations
RECURSIVE link_all(_, _, _, _)
link_all(insts, i, ps, errs) ==
    IF i > Len(insts) THEN [policies |-> ps, errs |-> errs]
    ELSE LET r == parse_instantiations(ps, insts[i]) IN
         link_all(insts, i + 1, r.policies, errs \o r.errs)

\* the first match of try_into: the policy set of the slice, or the errors
slice_policy_set(slice) ==
    IF slice.policies.form = "concatenated"
    THEN LET r == PolicySet_from_str(slice.policies.texts) IN
         IF r.ok THEN r
         ELSE Err(<<"couldn't parse concatenated policies string">> \o r.errs)
    ELSE parse_policy_set_from_individual_policies(
            slice.policies.map, slice.templates)

\* a match that goes on with no entities when the entities are refused
slice_start_dropping_entities_error(ents, policy_set) ==
    IF policy_set.ok
    THEN [policies |-> policy_set.val,
          entities |-> IF ents.ok THEN ents.val ELSE Entities_empty,
          errs |-> <<>>]
    ELSE [policies |-> PolicySet_new, entities |-> Entities_empty,
          errs |-> policy_set.errs]

\* a match that goes on with the policies that parsed when the entities
\* are refused
slice_start_keeping_policies(ents, policy_set) ==
    IF ents.ok /\ policy_set.ok
    THEN [policies |-> policy_set.val, entities |-> ents.val, errs |-> <<>>]
    ELSE [policies |-> IF policy_set.ok THEN policy_set.val
                       ELSE PolicySet_new,
          entities |-> Entities_empty,
          errs |-> (IF ents.ok THEN <<>> ELSE <<ents.errs>>)
                   \o (IF policy_set.ok THEN <<>> ELSE policy_set.errs)]

\* the second match of try_into: the policy set and the entities to go on
\* with, and the errors so far
slice_start(ents, policy_set) ==
    IF ents.ok /\ policy_set.ok
    THEN [policies |-> policy_set.val, entities |-> ents.val, errs |-> <<>>]
    ELSE [policies |-> PolicySet_new, entities |-> Entities_empty,
          errs |-> (IF ents.ok THEN <<>> ELSE <<ents.errs>>)
                   \o (IF policy_set.ok THEN <<>> ELSE policy_set.errs)]

\* a try_into that skips the template instantiations
slice_link_skipping_instantiations(template_instantiations, start) ==
    [policies |-> start.policies, errs |-> start.errs]

\* if let Some(t_inst_list) = template_instantiations { ... }
slice_link(template_instantiations, start) ==
    IF IsSome(template_instantiations)
    THEN link_all(Unwrap(template_instantiations), 1, start.policies,
                  start.errs)
    ELSE [policies |-> start.policies, errs |-> start.errs]

\* the end of try_into
slice_result(start, linked) ==
    IF linked.errs = <<>>
    THEN Ok([policies |-> linked.policies, entities |-> start.entities])
    ELSE Err(linked.errs)

slice_finish(template_instantiations, start) ==
    slice_result(start, slice_link(template_instantiations, start))

\* RecvdSlice::try_into
try_into(slice, schema) ==
    slice_finish(slice.template_instantiations,
        slice_start(Entities_from_json_value(slice.entities, schema),
                    slice_policy_set(slice)))

\* the end of get_components: the slice's errors, or the three components
components(q, s) ==
    IF ~s.ok THEN s
    ELSE Ok([request |-> q, policies |-> s.val.policies,
             entities |-> s.val.entities])

\* a get_components that goes through every stage and returns the errors
\* of all of them
get_components_collecting(c) ==
    LET schema == IF IsSome(c.schema)
                  THEN Schema_from_json_value(Unwrap(c.schema))
                  ELSE Ok(<<>>)
        principal == IF IsSome(c.principal)
                     THEN EntityUid_from_json(Unwrap(c.principal))
                     ELSE Ok(<<>>)
        action == EntityUid_from_json(c.action)
        resource == IF IsSome(c.resource)
                    THEN EntityUid_from_json(Unwrap(c.resource))
                    ELSE Ok(<<>>)
        schema_opt == IF IsSome(c.schema) /\ schema.ok
                      THEN Some(schema.val) ELSE None
        context == Context_from_json_value(c.context,
                        IF IsSome(schema_opt) /\ action.ok
                        THEN Some(<<Unwrap(schema_opt), action.val>>)
                        ELSE None)
        s == try_into(c.slice, schema_opt)
        errs == (IF schema.ok THEN <<>> ELSE <<schema.errs>>)
                \o (IF principal.ok THEN <<>>
                    ELSE <<"Failed to parse principal", principal.errs>>)
                \o (IF action.ok THEN <<>>
                    ELSE <<"Failed to parse action", action.errs>>)
                \o (IF resource.ok THEN <<>>
                    ELSE <<"Failed to parse resource", resource.errs>>)
                \o (IF context.ok THEN <<>> ELSE <<context.errs>>)
        q == Request_new(
                IF IsSome(c.principal) THEN Some(principal.val) ELSE None,
                Some(action.val),
                IF IsSome(c.resource) THEN Some(resource.val) ELSE None,
                context.val,
                IF c.enable_request_validation THEN schema_opt ELSE None)
    IN IF errs # <<>> THEN Err(errs \o (IF s.ok THEN <<>> ELSE s.errs))
       ELSE IF ~q.ok THEN Err(<<q.errs>> \o (IF s.ok THEN <<>> ELSE s.errs))
       ELSE components(q.val, s)

\* AuthorizationCall::get_components
get_components(c) ==
    LET schema == IF IsSome(c.schema)
                  THEN Schema_from_json_value(Unwrap(c.schema))
                  ELSE Ok(<<>>)
        schema_opt == IF IsSome(c.schema) /\ schema.ok
                      THEN Some(schema.val) ELSE None
        principal == IF IsSome(c.principal)
                     THEN EntityUid_from_json(Unwrap(c.principal))
                     ELSE Ok(<<>>)
        action == EntityUid_from_json(c.action)
        resource == IF IsSome(c.resource)
                    THEN EntityUid_from_json(Unwrap(c.resource))
                    ELSE Ok(<<>>)
        context == Context_from_json_value(c.context,
                        IF IsSome(schema_opt)
                        THEN Some(<<Unwrap(schema_opt), action.val>>)
                        ELSE None)
        q == Request_new(
                IF IsSome(c.principal) THEN Some(principal.val) ELSE None,
                Some(action.val),
                IF IsSome(c.resource) THEN Some(resource.val) ELSE None,
                context.val,
                IF c.enable_request_validation THEN schema_opt ELSE None)
    IN IF ~schema.ok THEN Err(<<schema.errs>>)
       ELSE IF ~principal.ok
       THEN Err(<<"Failed to parse principal", principal.errs>>)
       ELSE IF ~action.ok THEN Err(<<"Failed to parse action", action.errs>>)
       ELSE IF ~resource.ok
       THEN Err(<<"Failed to parse resource", resource.errs>>)
       ELSE IF ~context.ok THEN Err(<<context.errs>>)
       ELSE IF ~q.ok THEN Err(<<q.errs>>)
       ELSE components(q.val, try_into(c.slice, schema_opt))

\* the schema of the call c as get_components passes it on: the schema
\* parsed, or none
CallSchema(c) ==
    IF IsSome(c.schema) /\ Schema_from_json_value(Unwrap(c.schema)).ok
    THEN Some(Schema_from_json_value(Unwrap(c.schema)).val)
    ELSE None

\* the context of the call c, parsed with the schema of the call when the
\* action is one
ContextOf(c) ==
    Context_from_json_value(c.context,
        IF IsSome(CallSchema(c)) /\ EntityUid_from_json(c.action).ok
        THEN Some(<<Unwrap(CallSchema(c)), EntityUid_from_json(c.action).val>>)
        ELSE None)

\* the five parts of the request of the call c are built
RequestPartsBuilt(c) ==
    /\ IsSome(c.schema) => Schema_from_json_value(Unwrap(c.schema)).ok
    /\ IsSome(c.principal) => EntityUid_from_json(Unwrap(c.principal)).ok
    /\ EntityUid_from_json(c.action).ok
    /\ IsSome(c.resource) => EntityUid_from_json(Unwrap(c.resource)).ok
    /\ ContextOf(c).ok

\* the request constructed from them
CallRequest(c) ==
    Request_new(
        IF IsSome(c.principal)
        THEN Some(EntityUid_from_json(Unwrap(c.principal)).val) ELSE None,
        Some(EntityUid_from_json(c.action).val),
        IF IsSome(c.resource)
        THEN Some(EntityUid_from_json(Unwrap(c.resource)).val) ELSE None,
        ContextOf(c).val,
        IF c.enable_request_validation THEN CallSchema(c) ELSE None)

RequestBuilt(c) == RequestPartsBuilt(c) /\ CallRequest(c).ok

(***************************************************************************)
(* The policy evaluator and the authorizer.                                *)
(***************************************************************************)
BoolValue(b) == [ty |-> "bool", val |-> b]
LongValue(a) == [ty |-> "long", val |-> a]

\* an operand: the evaluation r of the operand expression when it has the
\* type, a type error when it has another
typed(ty, r) ==
    IF ~r.ok \/ r.val.ty = ty THEN r
    ELSE Err(type_error_single(ty, r.val.ty))

\* a + b and a - b that wrap around instead of reporting the overflow
eval_binary_wrapping(op, a, b) ==
    IF op = "Add" THEN Ok(LongValue(wrapping_add(a.val, b.val)))
    ELSE Ok(LongValue(wrapping_sub(a.val, b.val)))

\* a + b and a - b on two longs
eval_binary(op, a, b) ==
    LET r == IF op = "Add" THEN checked_add(a.val, b.val)
             ELSE checked_sub(a.val, b.val)
    IN IF IsSome(r) THEN Ok(LongValue(Unwrap(r)))
       ELSE Err(EvaluationError_from_IntegerOverflowError(
                    [tag |-> "BinaryOp", op |-> op, arg1 |-> a, arg2 |-> b]))

\* a * constant on a long and the constant of the policy text
eval_mul(a, constant) ==
    LET r == checked_mul(a.val, constant)
    IN IF IsSome(r) THEN Ok(LongValue(Unwrap(r)))
       ELSE Err(EvaluationError_from_IntegerOverflowError(
                    [tag |-> "Multiplication", arg |-> a,
                     constant |-> constant]))

\* -a on a long
eval_neg(a) ==
    LET r == checked_neg(a.val)
    IN IF IsSome(r) THEN Ok(LongValue(Unwrap(r)))
       ELSE Err(EvaluationError_from_IntegerOverflowError(
                    [tag |-> "UnaryOp", op |-> "Neg", arg |-> a]))

(***************************************************************************)
(* The ipaddr extension, on IPv4 addresses: an address is the text it was  *)
(* made from, "a.b.c.d" or "a.b.c.d/prefix".                               *)
(***************************************************************************)
\* the digit that the i-th character of a text is, or -1
digit_at(str, i) ==
    IF \E d \in 0..9 : ToString(d) = SubSeq(str, i, i)
    THEN CHOOSE d \in 0..9 : ToString(d) = SubSeq(str, i, i)
    ELSE -1

\* the decimal number that a text of one to three digits is, or -1
decimal(str) ==
    IF Len(str) \notin 1..3 \/ \E i \in 1..Len(str) : digit_at(str, i) = -1
    THEN -1
    ELSE IF Len(str) = 1 THEN digit_at(str, 1)
    ELSE IF Len(str) = 2 THEN 10 * digit_at(str, 1) + digit_at(str, 2)
    ELSE 100 * digit_at(str, 1) + 10 * digit_at(str, 2) + digit_at(str, 3)

\* the places of the character sep in a text, and the n-th of them
places(str, sep) == {i \in 1..Len(str) : SubSeq(str, i, i) = sep}

nth_place(str, sep, n) ==
    CHOOSE i \in places(str, sep) :
        Cardinality({j \in places(str, sep) : j < i}) = n - 1

\* the text of an address before its "/", and the text behind it
address_part(str) ==
    IF places(str, "/") = {} THEN str
    ELSE SubSeq(str, 1, nth_place(str, "/", 1) - 1)

prefix_part(str) == SubSeq(str, nth_place(str, "/", 1) + 1, Len(str))

\* the k-th of the four parts of a text with three dots
octet_part(str, k) ==
    SubSeq(str,
           IF k = 1 THEN 1 ELSE nth_place(str, ".", k - 1) + 1,
           IF k = 4 THEN Len(str) ELSE nth_place(str, ".", k) - 1)

\* the octet that the k-th part of the text is, if it is one
Octets(addr, k) == {decimal(part) : part \in {octet_part(addr, k)}} \cap 0..255

\* the prefix length of an address: 32 when the text gives none
PrefixLengths(str) ==
    IF places(str, "/") = {} THEN {32}
    ELSE IF Cardinality(places(str, "/")) > 1 THEN {}
    ELSE {decimal(part) : part \in {prefix_part(str)}} \cap 0..32

\* the address with the octets of the text addr and the prefix length
AddressesOf(addr, prefix) ==
    IF Cardinality(places(addr, ".")) # 3 THEN {}
    ELSE {[octets |-> <<o1, o2, o3, o4>>, prefix |-> prefix] :
            o1 \in Octets(addr, 1), o2 \in Octets(addr, 2),
            o3 \in Octets(addr, 3), o4 \in Octets(addr, 4)}

\* the address that a text is, its four octets and its prefix length: a set
\* of one address, or empty when the text is no address
parse_ipaddr(str) ==
    UNION {AddressesOf(addr, prefix) :
            addr \in {address_part(text) : text \in {str}},
            prefix \in UNION {PrefixLengths(text) : text \in {str}}}

\* 2^n for n up to 8
pow2(n) == <<1, 2, 4, 8, 16, 32, 64, 128, 256>>[n + 1]

\* the number of the bits of the k-th octet that a prefix covers
covered_bits(prefix, k) ==
    IF prefix >= 8 * k THEN 8
    ELSE IF prefix <= 8 * (k - 1) THEN 0
    ELSE prefix - 8 * (k - 1)

\* isInRange: the addresses of a are all addresses of b
ip_in_range(a, b) ==
    /\ a.prefix >= b.prefix
    /\ \A k \in 1..4 :
        a.octets[k] \div pow2(8 - covered_bits(b.prefix, k))
            = b.octets[k] \div pow2(8 - covered_bits(b.prefix, k))

\* the constructor ip(str)
eval_ip(str) ==
    IF parse_ipaddr(str) # {} THEN Ok([ty |-> "ipaddr", val |-> str])
    ELSE Err(failed_extension_function_application("ipaddr",
                "invalid IP address: " \o str))

\* a.isInRange(b) on two addresses
eval_is_in_range(a, b) ==
    IF parse_ipaddr(a.val) = {}
    THEN Err(failed_extension_function_application("ipaddr",
                "invalid IP address: " \o a.val))
    ELSE Ok(BoolValue(\E x \in parse_ipaddr(a.val), y \in parse_ipaddr(b.val) :
                        ip_in_range(x, y)))

\* an interpreter that evaluates both operands of && and || and both
\* branches of if before it looks at the first
RECURSIVE interpret_eager(_, _)
interpret_eager(e, q) ==
    CASE e.op = "lit" -> Ok(BoolValue(e.b))
      [] e.op = "long" -> Ok(LongValue(e.val))
      [] e.op = "context_attr" ->
            IF e.attr \in DOMAIN q.context THEN Ok(q.context[e.attr])
            ELSE Err(record_attr_does_not_exist(e.attr,
                                                SetToSeq(DOMAIN q.context)))
      [] e.op \in {"and", "or"} ->
            LET l == typed("bool", interpret_eager(e.arg1, q))
                r == typed("bool", interpret_eager(e.arg2, q))
            IN IF ~l.ok THEN l
               ELSE IF ~r.ok THEN r
               ELSE IF e.op = "and"
               THEN Ok(BoolValue(l.val.val /\ r.val.val))
               ELSE Ok(BoolValue(l.val.val \/ r.val.val))
      [] e.op = "ite" ->
            LET c == typed("bool", interpret_eager(e.test_expr, q))
                t == interpret_eager(e.then_expr, q)
                f == interpret_eager(e.else_expr, q)
            IN IF ~c.ok THEN c
               ELSE IF ~t.ok THEN t
               ELSE IF ~f.ok THEN f
               ELSE IF c.val.val THEN t ELSE f
      [] e.op = "not" ->
            LET a == typed("bool", interpret_eager(e.arg, q))
            IN IF ~a.ok THEN a ELSE Ok(BoolValue(~a.val.val))
      [] e.op = "neg" ->
            LET a == typed("long", interpret_eager(e.arg, q))
            IN IF ~a.ok THEN a ELSE eval_neg(a.val)
      [] e.op \in {"Add", "Sub"} ->
            LET a == typed("long", interpret_eager(e.arg1, q))
                b == typed("long", interpret_eager(e.arg2, q))
            IN IF ~a.ok THEN a
               ELSE IF ~b.ok THEN b
               ELSE eval_binary(e.op, a.val, b.val)
      [] e.op = "mul" ->
            LET a == typed("long", interpret_eager(e.arg, q))
            IN IF ~a.ok THEN a ELSE eval_mul(a.val, e.constant)
      [] e.op = "ip" -> eval_ip(e.arg)
      [] e.op = "isInRange" ->
            LET a == typed("ipaddr", interpret_eager(e.arg1, q))
                b == typed("ipaddr", interpret_eager(e.arg2, q))
            IN IF ~a.ok THEN a
               ELSE IF ~b.ok THEN b
               ELSE eval_is_in_range(a.val, b.val)

\* the evaluator on the expressions of the model's policies
RECURSIVE interpret(_, _)
interpret(e, q) ==
    CASE e.op = "lit" -> Ok(BoolValue(e.b))
      [] e.op = "long" -> Ok(LongValue(e.val))
      [] e.op = "context_attr" ->
            IF e.attr \in DOMAIN q.context THEN Ok(q.context[e.attr])
            ELSE Err(record_attr_does_not_exist(e.attr,
                                                SetToSeq(DOMAIN q.context)))
      [] e.op = "and" ->
            LET l == typed("bool", interpret(e.arg1, q))
            IN IF ~l.ok THEN l
               ELSE IF ~l.val.val THEN Ok(BoolValue(FALSE))
               ELSE typed("bool", interpret(e.arg2, q))
      [] e.op = "or" ->
            LET l == typed("bool", interpret(e.arg1, q))
            IN IF ~l.ok THEN l
               ELSE IF l.val.val THEN Ok(BoolValue(TRUE))
               ELSE typed("bool", interpret(e.arg2, q))
      [] e.op = "ite" ->
            LET c == typed("bool", interpret(e.test_expr, q))
            IN IF ~c.ok THEN c
               ELSE IF c.val.val THEN interpret(e.then_expr, q)
               ELSE interpret(e.else_expr, q)
      [] e.op = "not" ->
            LET a == typed("bool", interpret(e.arg, q))
            IN IF ~a.ok THEN a ELSE Ok(BoolValue(~a.val.val))
      [] e.op = "neg" ->
            LET a == typed("long", interpret(e.arg, q))
            IN IF ~a.ok THEN a ELSE eval_neg(a.val)
      [] e.op \in {"Add", "Sub"} ->
            LET a == typed("long", interpret(e.arg1, q))
                b == typed("long", interpret(e.arg2, q))
            IN IF ~a.ok THEN a
               ELSE IF ~b.ok THEN b
               ELSE eval_binary(e.op, a.val, b.val)
      [] e.op = "mul" ->
            LET a == typed("long", interpret(e.arg, q))
            IN IF ~a.ok THEN a ELSE eval_mul(a.val, e.constant)
      [] e.op = "ip" -> eval_ip(e.arg)
      [] e.op = "isInRange" ->
            LET a == typed("ipaddr", interpret(e.arg1, q))
                b == typed("ipaddr", interpret(e.arg2, q))
            IN IF ~a.ok THEN a
               ELSE IF ~b.ok THEN b
               ELSE eval_is_in_range(a.val, b.val)

\* a scope constraint against the request field it constrains
scope_matches(c, field) ==
    c.op = "any" \/ (c.op = "eq" /\ field = Some(c.uid))

\* one policy on one request: Satisfied, NotSatisfied or Error
evaluate_policy(p, q) ==
    IF ~(scope_matches(p.principal, q.principal)
         /\ scope_matches(p.resource, q.resource))
    THEN [outcome |-> "NotSatisfied"]
    ELSE LET v == interpret(p.cond, q) IN
         IF ~v.ok THEN [outcome |-> "Error", error |-> v.errs]
         ELSE IF v.val.ty # "bool"
         THEN [outcome |-> "Error",
               error |-> type_error_single("bool", v.val.ty)]
         ELSE IF v.val.val THEN [outcome |-> "Satisfied"]
         ELSE [outcome |-> "NotSatisfied"]

\* Authorizer::new()
Authorizer_new == [extensions |-> "all_available"]

\* LocalKey::with on a thread-local whose value is slot: the value is
\* initialized on the first use and kept from then on
LocalKey_with(slot, init) == IF IsSome(slot) THEN slot ELSE Some(init)

\* the three bags of the authorizer
NoBags == [satisfied_permits |-> {}, satisfied_forbids |-> {}, errors |-> {}]

\* the authorizer's step on the policy id: evaluate it and file the outcome
authorizer_step(bags, id, ps, q) ==
    LET p == ps.policies[id]
        r == evaluate_policy(p, q)
    IN IF r.outcome = "Error"
       THEN [bags EXCEPT !.errors = @ \cup {[id |-> id, error |-> r.error]}]
       ELSE IF r.outcome = "Satisfied" /\ p.effect = "permit"
       THEN [bags EXCEPT !.satisfied_permits = @ \cup {id}]
       ELSE IF r.outcome = "Satisfied" /\ p.effect = "forbid"
       THEN [bags EXCEPT !.satisfied_forbids = @ \cup {id}]
       ELSE bags

\* the decision rule: forbid overrides permit, an explicit permit is required
authorizer_decide(bags) ==
    IF bags.satisfied_forbids # {}
    THEN [decision |-> "Deny",
          diagnostics |-> [reason |-> bags.satisfied_forbids,
                           errors |-> bags.errors]]
    ELSE IF bags.satisfied_permits # {}
    THEN [decision |-> "Allow",
          diagnostics |-> [reason |-> bags.satisfied_permits,
                           errors |-> bags.errors]]
    ELSE [decision |-> "Deny",
          diagnostics |-> [reason |-> {}, errors |-> bags.errors]]

RECURSIVE authorizer_run(_, _, _, _)
authorizer_run(ids, bags, ps, q) ==
    IF ids = {} THEN bags
    ELSE LET id == CHOOSE x \in ids : TRUE IN
         authorizer_run(ids \ {id}, authorizer_step(bags, id, ps, q), ps, q)

\* Authorizer::is_authorized(&request, &policies, &entities)
Authorizer_is_authorized(q, ps, ents) ==
    authorizer_decide(authorizer_run(DOMAIN ps.policies, NoBags, ps, q))

\* the string form of an authorization error
AuthorizationError_to_string(e) ==
    "while evaluating policy '" \o e.id \o "': "
        \o EvaluationError_to_string(e.error)

(***************************************************************************)
(* The answer of the front-end.                                            *)
(***************************************************************************)
\* a conversion that loses the reason set
InterfaceResponse_from_without_reason(response) ==
    [decision |-> response.decision,
     diagnostics |->
        [reason |-> {},
         errors |-> {AuthorizationError_to_string(e) :
                        e \in response.diagnostics.errors}]]

\* a conversion that also collects the ids of the errored policies as reason
InterfaceResponse_from_errors_as_reason(response) ==
    [decision |-> response.decision,
     diagnostics |->
        [reason |-> response.diagnostics.reason
                    \cup {e.id : e \in response.diagnostics.errors},
         errors |-> {AuthorizationError_to_string(e) :
                        e \in response.diagnostics.errors}]]

\* a conversion that renders an error without the policy it belongs to
InterfaceResponse_from_bare_errors(response) ==
    [decision |-> response.decision,
     diagnostics |->
        [reason |-> response.diagnostics.reason,
         errors |-> {EvaluationError_to_string(e.error) :
                        e \in response.diagnostics.errors}]]

\* impl From<Response> for InterfaceResponse
InterfaceResponse_from(response) ==
    [decision |-> response.decision,
     diagnostics |->
        [reason |-> response.diagnostics.reason,
         errors |-> {AuthorizationError_to_string(e) :
                        e \in response.diagnostics.errors}]]

Success(response) == [tag |-> "Success", response |-> response]
ParseFailed(errs) == [tag |-> "ParseFailed", errors |-> errs]

\* the JSON text of an answer: the enum is untagged, the variant's fields only
AuthorizationAnswer_to_json(answer) ==
    IF answer.tag = "Success" THEN [response |-> answer.response]
    ELSE [errors |-> answer.errors]

\* InterfaceResult and its constructors
InterfaceResult_succeed(value) ==
    [tag |-> "Success", result |-> AuthorizationAnswer_to_json(value)]
InterfaceResult_fail_internally(msg) ==
    [tag |-> "Failure", is_internal |-> TRUE, errors |-> <<msg>>]
InterfaceResult_fail_bad_request(errs) ==
    [tag |-> "Failure", is_internal |-> FALSE, errors |-> errs]

\* is_authorized(call): construct and ask the authorizer the request
is_authorized_match(comps) ==
    IF comps.ok
    THEN Success(InterfaceResponse_from(
            Authorizer_is_authorized(comps.val.request, comps.val.policies,
                                     comps.val.entities)))
    ELSE ParseFailed(comps.errs)

is_authorized(c) == is_authorized_match(get_components(c))

\* a match that takes a response with evaluation errors for a failure
answer_to_result_errors_fail(answer) ==
    IF answer.tag = "Success"
    THEN (IF answer.response.diagnostics.errors = {}
          THEN InterfaceResult_succeed(answer)
          ELSE InterfaceResult_fail_bad_request(
                    SetToSeq(answer.response.diagnostics.errors)))
    ELSE InterfaceResult_fail_bad_request(answer.errors)

\* a match that takes a denied request for a failure
answer_to_result_deny_fails(answer) ==
    IF answer.tag = "Success"
    THEN (IF answer.response.decision = "Allow"
          THEN InterfaceResult_succeed(answer)
          ELSE InterfaceResult_fail_bad_request(<<"Deny">>))
    ELSE InterfaceResult_fail_bad_request(answer.errors)

\* a match that reports every failure as internal
answer_to_result_all_internal(answer) ==
    IF answer.tag = "Success" THEN InterfaceResult_succeed(answer)
    ELSE [tag |-> "Failure", is_internal |-> TRUE, errors |-> answer.errors]

\* the match of json_is_authorized on the answer of is_authorized
answer_to_result(answer) ==
    IF answer.tag = "Success" THEN InterfaceResult_succeed(answer)
    ELSE InterfaceResult_fail_bad_request(answer.errors)

(***************************************************************************)
(* The text of the input string.  An input is given as the JSON document   *)
(* it holds, the members of an object in the order of the text; its text   *)
(* is the document on one line, with ", " between the members and the      *)
(* elements and ": " behind a key.  A member that is None is left out.     *)
(***************************************************************************)
\* the characters of a JSON string: a quote and a backslash are escaped
RECURSIVE json_escape(_)
json_escape(str) ==
    IF Len(str) = 0 THEN ""
    ELSE (IF SubSeq(str, 1, 1) \in {"\"", "\\"} THEN "\\" ELSE "")
         \o SubSeq(str, 1, 1) \o json_escape(SubSeq(str, 2, Len(str)))

json_string(str) == "\"" \o json_escape(str) \o "\""
json_member(key, text) == json_string(key) \o ": " \o text
json_object(members) == "{" \o join(members, ", ") \o "}"
json_array(elements) == "[" \o join(elements, ", ") \o "]"

json_uid(j) ==
    json_object(<<json_member("type", json_string(j.type)),
                  json_member("id", json_string(j.id))>>)

\* a value of the context or of the attributes of an entity
json_value(v) ==
    IF v.kind = "bool" THEN (IF v.b THEN "true" ELSE "false")
    ELSE json_object(<<json_member("__extn",
            json_object(<<json_member("fn", json_string(v.fn)),
                          json_member("arg", json_string(v.arg))>>))>>)

\* the members of an object of values, and of an object of strings
value_members(obj) ==
    [i \in 1..Len(obj) |-> json_member(obj[i][1], json_value(obj[i][2]))]
string_members(obj) ==
    [i \in 1..Len(obj) |-> json_member(obj[i][1], json_string(obj[i][2]))]

json_entity(e) ==
    json_object(<<json_member("uid", json_uid(e.uid)),
                  json_member("attrs", json_object(value_members(e.attrs))),
                  json_member("parents",
                      json_array([i \in 1..Len(e.parents) |->
                                    json_uid(e.parents[i])]))>>)

json_link(l) ==
    json_object(<<json_member("slot", json_string(l.slot)),
                  json_member("value",
                      json_object(<<json_member("ty", json_string(l.value.ty)),
                                    json_member("eid",
                                        json_string(l.value.eid))>>))>>)

json_template_link(t) ==
    json_object(<<json_member("template_id", json_string(t.template_id)),
                  json_member("result_policy_id",
                      json_string(t.result_policy_id)),
                  json_member("instantiations",
                      json_array([i \in 1..Len(t.instantiations) |->
                                    json_link(t.instantiations[i])]))>>)

\* a schema: one namespace without a name; a value that is no schema is
\* given as false
json_strings(ss) == json_array([i \in 1..Len(ss) |-> json_string(ss[i])])

json_schema_action(a) ==
    json_member(a.id, json_object(<<json_member("appliesTo",
        json_object(<<json_member("principalTypes",
                                  json_strings(a.principal_types)),
                      json_member("resourceTypes",
                                  json_strings(a.resource_types))>>))>>))

json_schema(v) ==
    IF ~v.wellformed THEN "false"
    ELSE json_object(<<json_member("",
            json_object(<<
                json_member("entityTypes",
                    json_object([i \in 1..Len(v.entity_types) |->
                        json_member(v.entity_types[i], "{}")])),
                json_member("actions",
                    json_object([i \in 1..Len(v.actions) |->
                        json_schema_action(v.actions[i])]))>>))>>)

\* the policies: an object from id to text, or the policy texts in one string
json_policies(p) ==
    IF p.form = "map" THEN json_object(string_members(p.entries))
    ELSE json_string(join(p.texts, ""))

\* the text of the call up to the context, to the slice and to the parts of
\* the slice
text_to_context(in) ==
    "{"
    \o (IF IsSome(in.principal)
        THEN json_member("principal", json_uid(Unwrap(in.principal))) \o ", "
        ELSE "")
    \o json_member("action", json_uid(in.action)) \o ", "
    \o (IF IsSome(in.resource)
        THEN json_member("resource", json_uid(Unwrap(in.resource))) \o ", "
        ELSE "")
    \o "\"context\": "

text_to_policies(in) ==
    text_to_context(in) \o json_object(value_members(in.context)) \o ", "
    \o (IF IsSome(in.schema)
        THEN json_member("schema", json_schema(Unwrap(in.schema))) \o ", "
        ELSE "")
    \o (IF IsSome(in.enable_request_validation)
        THEN json_member("enable_request_validation",
                IF Unwrap(in.enable_request_validation) THEN "true"
                ELSE "false") \o ", "
        ELSE "")
    \o "\"slice\": {\"policies\": "

text_to_templates(in) ==
    text_to_policies(in) \o json_policies(in.slice.policies) \o ", "
    \o json_member("entities",
            json_array([i \in 1..Len(in.slice.entities) |->
                            json_entity(in.slice.entities[i])]))
    \o ", \"templates\": "

text_to_instantiations(in) ==
    (IF IsSome(in.slice.templates)
     THEN text_to_templates(in)
          \o json_object(string_members(Unwrap(in.slice.templates)))
     ELSE text_to_policies(in) \o json_policies(in.slice.policies) \o ", "
          \o json_member("entities",
                json_array([i \in 1..Len(in.slice.entities) |->
                                json_entity(in.slice.entities[i])])))
    \o ", \"template_instantiations\": "

\* serde_json's position of an error: all of the input is on line 1, and
\* the column is the number of characters read
at_column(read) == " at line 1 column " \o ToString(Len(read))

(***************************************************************************)
(* Deserialization of the input string into an AuthorizationCall.          *)
(***************************************************************************)
\* the default of enable_request_validation
constant_true == TRUE

\* the first member of an object that repeats the key of a member before it
FirstRepeat(obj) ==
    CHOOSE i \in 1..Len(obj) :
        /\ \E j \in 1..(i - 1) : obj[j][1] = obj[i][1]
        /\ \A k \in 1..(i - 1) :
                \A j \in 1..(k - 1) : obj[j][1] # obj[k][1]

\* what MapPreventDuplicates has read of an object, of the members given,
\* when it finds a key for the second time: the members up to that one, and
\* the closing brace when no member follows
read_to_repeat(members, i) ==
    "{" \o join(SubSeq(members, 1, i), ", ")
    \o (IF i = Len(members) THEN "}" ELSE "")

\* the instantiation lists of the call that repeat a slot
BadLinks(insts) ==
    {i \in 1..Len(insts) : ~Links_try_from(insts[i].instantiations).ok}

\* the iteration orders that the hashers of the HashMaps of the call, the
\* policies and the templates, can give them
HasherChoices(in) ==
    IF ~in.wellformed THEN {[policies |-> <<>>, templates |-> <<>>]}
    ELSE {[policies |-> p, templates |-> t] :
            p \in Orders(IF in.slice.policies.form = "map"
                         THEN Keys(in.slice.policies.entries) ELSE {}),
            t \in Orders(IF IsSome(in.slice.templates)
                         THEN Keys(Unwrap(in.slice.templates)) ELSE {})}

\* the slice of the call deserialized, and with it the call
deserialize_slice(in, hashers) ==
    IF in.slice.policies.form = "map"
            /\ HasDuplicateKey(in.slice.policies.entries)
    THEN Err("policies as a concatenated string or multiple policies as a "
             \o "hashmap where the policy id is the key with no duplicate IDs"
             \o at_column(text_to_policies(in)
                          \o json_policies(in.slice.policies)))
    ELSE IF IsSome(in.slice.templates)
            /\ HasDuplicateKey(Unwrap(in.slice.templates))
    THEN Err("invalid entry: found duplicate key"
             \o at_column(text_to_templates(in)
                    \o read_to_repeat(
                            string_members(Unwrap(in.slice.templates)),
                            FirstRepeat(Unwrap(in.slice.templates)))))
    ELSE IF IsSome(in.slice.template_instantiations)
            /\ BadLinks(Unwrap(in.slice.template_instantiations)) # {}
    THEN LET insts == Unwrap(in.slice.template_instantiations)
             i == CHOOSE k \in BadLinks(insts) : \A j \in BadLinks(insts) : k <= j
         IN Err(DuplicateLinkError_to_string(
                    Links_try_from(insts[i].instantiations).errs)
                \o at_column(text_to_instantiations(in) \o "["
                        \o join([k \in 1..i |-> json_template_link(insts[k])],
                                ", ")))
    ELSE Ok([principal |-> in.principal,
             action |-> in.action,
             resource |-> in.resource,
             context |-> ToMap(in.context),
             schema |-> in.schema,
             enable_request_validation |->
                IF IsSome(in.enable_request_validation)
                THEN Unwrap(in.enable_request_validation)
                ELSE constant_true,
             slice |->
                [policies |->
                    IF in.slice.policies.form = "map"
                    THEN [form |-> "map",
                          map |-> HashMap_from(in.slice.policies.entries,
                                               hashers.policies)]
                    ELSE in.slice.policies,
                 entities |-> in.slice.entities,
                 templates |->
                    IF IsSome(in.slice.templates)
                    THEN Some(HashMap_from(Unwrap(in.slice.templates),
                                           hashers.templates))
                    ELSE None,
                 template_instantiations |->
                    in.slice.template_instantiations]])

\* the entries of a JSON object, each key with the last value the text gives it
LastEntries(obj) ==
    LET last == {i \in 1..Len(obj) :
                    \A j \in (i + 1)..Len(obj) : obj[j][1] # obj[i][1]}
    IN [n \in 1..Cardinality(last) |->
            obj[CHOOSE i \in last : Cardinality({k \in last : k < i}) = n - 1]]

\* a deserialization in which the last value of a context key replaces the
\* values given before
serde_from_str_last_context_value(in, hashers) ==
    IF ~in.wellformed THEN Err("expected value at line 1 column 1")
    ELSE deserialize_slice([in EXCEPT !.context = LastEntries(@)], hashers)

\* serde_json::from_str::<AuthorizationCall>(input), the HashMaps of the
\* call getting the iteration orders hashers
serde_from_str(in, hashers) ==
    IF ~in.wellformed THEN Err("expected value at line 1 column 1")
    ELSE IF HasDuplicateKey(in.context)
    THEN Err("invalid entry: found duplicate key"
             \o at_column(text_to_context(in)
                    \o read_to_repeat(value_members(in.context),
                                      FirstRepeat(in.context))))
    ELSE deserialize_slice(in, hashers)

\* json_is_authorized(input)
json_is_authorized_match(r) ==
    IF ~r.ok
    THEN InterfaceResult_fail_internally("error parsing call: " \o r.errs)
    ELSE answer_to_result(is_authorized(r.val))

json_is_authorized(in, hashers) ==
    json_is_authorized_match(serde_from_str(in, hashers))

(***************************************************************************)
(* The inputs of the model.                                                *)
(***************************************************************************)
PolicyIdOf(i) == "ID" \o ToString(i)

Absent == "<absent>"

\* the "policies" object that gives id i the text f[i], for the i it is given
PolicyEntries(f) ==
    SelectSeq([i \in 1..MaxPolicies |-> <<PolicyIdOf(i - 1), f[i]>>],
              LAMBDA e : e[2] # Absent)

MapSources == StaticSources \cup {SrcSyntaxError}

PolicySpecifications ==
    \* a map from policy id to policy text
    {[form |-> "map", entries |-> PolicyEntries(f)] :
        f \in [1..MaxPolicies -> MapSources \cup {Absent}]}
    \* a map whose text repeats a key
    \cup {[form |-> "map",
           entries |-> <<<<PolicyIdOf(0), a>>, <<PolicyIdOf(0), b>>>>] :
            a, b \in {SrcPermitAll, SrcForbidAliceDoor}}
    \* one string of concatenated policies
    \cup {[form |-> "concatenated", texts |-> t] :
            t \in {<<>>} \cup {<<a>> : a \in MapSources}
                  \cup {<<a, b>> : a, b \in MapSources}}

EntityEntry(ty, id, parents) ==
    [uid |-> JsonUid(ty, id), attrs |-> <<>>, parents |-> parents]

EntitiesInputs ==
    {<<>>,
     <<EntityEntry("Photo", "door", <<JsonUid("Folder", "house")>>),
       EntityEntry("Folder", "house", <<>>)>>,
     <<EntityEntry("User", "alice", <<>>), EntityEntry("User", "alice", <<>>)>>}

LinkOf(slot, ty, eid) == [slot |-> slot, value |-> [ty |-> ty, eid |-> eid]]

TemplateLinkOf(t, r, links) ==
    [template_id |-> t, result_policy_id |-> r, instantiations |-> links]

\* the templates and the template instantiations of a slice
TemplateInputs ==
    {[templates |-> None, template_instantiations |-> None],
     [templates |-> Some(<<<<"T0", SrcTemplate>>>>),
      template_instantiations |-> None],
     [templates |-> Some(<<<<"T0", SrcTemplate>>>>),
      template_instantiations |->
        Some(<<TemplateLinkOf("T0", "L0",
                    <<LinkOf("?principal", "User", "alice")>>)>>)],
     [templates |-> Some(<<<<"T0", SrcTemplate>>>>),
      template_instantiations |->
        Some(<<TemplateLinkOf("T0", PolicyIdOf(0),
                    <<LinkOf("?principal", "User", "alice")>>)>>)],
     [templates |-> Some(<<<<"T0", SrcTemplate>>>>),
      template_instantiations |->
        Some(<<TemplateLinkOf("T0", "L0",
                    <<LinkOf("?principal", "User", "alice"),
                      LinkOf("?principal", "User", "bob")>>)>>)]}

\* templates and instantiations whose ids collide, or whose links fail
CollidingTemplateInputs ==
    {\* the templates object repeats a key
     [templates |-> Some(<<<<"T0", SrcTemplate>>, <<"T0", SrcTemplate>>>>),
      template_instantiations |-> None],
     \* a template with the id of a static policy
     [templates |-> Some(<<<<PolicyIdOf(0), SrcTemplate>>>>),
      template_instantiations |-> None],
     \* a link whose result has the id of the template it links
     [templates |-> Some(<<<<"T0", SrcTemplate>>>>),
      template_instantiations |->
        Some(<<TemplateLinkOf("T0", "T0",
                    <<LinkOf("?principal", "User", "alice")>>)>>)],
     \* two links with the same result id
     [templates |-> Some(<<<<"T0", SrcTemplate>>>>),
      template_instantiations |->
        Some(<<TemplateLinkOf("T0", "L0",
                    <<LinkOf("?principal", "User", "alice")>>),
               TemplateLinkOf("T0", "L0",
                    <<LinkOf("?principal", "User", "alice")>>)>>)],
     \* two links with different result ids
     [templates |-> Some(<<<<"T0", SrcTemplate>>>>),
      template_instantiations |->
        Some(<<TemplateLinkOf("T0", "L0",
                    <<LinkOf("?principal", "User", "alice")>>),
               TemplateLinkOf("T0", "L1",
                    <<LinkOf("?principal", "User", "bob")>>)>>)],
     \* a link to a template that the slice does not have, then one to the
     \* template that it has
     [templates |-> Some(<<<<"T0", SrcTemplate>>>>),
      template_instantiations |->
        Some(<<TemplateLinkOf("T1", "L0",
                    <<LinkOf("?principal", "User", "alice")>>),
               TemplateLinkOf("T0", "L1",
                    <<LinkOf("?principal", "User", "bob")>>)>>)],
     \* a link with a slot that is no slot after one that is, then a link
     \* that is in order
     [templates |-> Some(<<<<"T0", SrcTemplate>>>>),
      template_instantiations |->
        Some(<<TemplateLinkOf("T0", "L0",
                    <<LinkOf("?principal", "User", "alice"),
                      LinkOf("?action", "Photo", "view")>>),
               TemplateLinkOf("T0", "L1",
                    <<LinkOf("?principal", "User", "bob")>>)>>)],
     \* a link with an entity type that does not parse, before a slot that
     \* is no slot
     [templates |-> Some(<<<<"T0", SrcTemplate>>>>),
      template_instantiations |->
        Some(<<TemplateLinkOf("T0", "L0",
                    <<LinkOf("?resource", "", "door"),
                      LinkOf("?action", "Photo", "view")>>)>>)],
     \* a link that gives the template one slot too many
     [templates |-> Some(<<<<"T0", SrcTemplate>>>>),
      template_instantiations |->
        Some(<<TemplateLinkOf("T0", "L0",
                    <<LinkOf("?principal", "User", "alice"),
                      LinkOf("?resource", "Photo", "door")>>)>>)]}

\* the policies that go with them: none, one permit, one text that does not
\* parse, a template given as the text of a policy, and a string that holds
\* a template only
FewPolicies ==
    {[form |-> "map", entries |-> <<>>],
     [form |-> "map", entries |-> <<<<PolicyIdOf(0), SrcPermitAll>>>>],
     [form |-> "map", entries |-> <<<<PolicyIdOf(0), SrcSyntaxError>>>>],
     [form |-> "map", entries |-> <<<<PolicyIdOf(0), SrcTemplate>>>>],
     [form |-> "concatenated", texts |-> <<SrcTemplate>>]}

SliceOf(p, e, t) ==
    [policies |-> p, entities |-> e, templates |-> t.templates,
     template_instantiations |-> t.template_instantiations]

\* slices that always build
SimpleSlices ==
    {[policies |-> [form |-> "map", entries |-> e], entities |-> <<>>,
      templates |-> None, template_instantiations |-> None] :
        e \in {<<>>, <<<<PolicyIdOf(0), SrcPermitAll>>>>}}

JsonBool(b) == [kind |-> "bool", b |-> b]

ContextInputs ==
    {<<>>,
     <<<<"is_authenticated", JsonBool(TRUE)>>>>,
     <<<<"is_authenticated", JsonBool(FALSE)>>>>,
     <<<<"is_authenticated", JsonBool(TRUE)>>,
       <<"is_authenticated", JsonBool(FALSE)>>>>,
     <<<<"source_ip", [kind |-> "extn", fn |-> "ipp", arg |-> "222.222.222.222"]>>>>}

SchemaAction(id, principal_types, resource_types) ==
    [id |-> id, principal_types |-> principal_types,
     resource_types |-> resource_types]

SchemaOf(entity_types, actions) ==
    [wellformed |-> TRUE, entity_types |-> entity_types, actions |-> actions]

\* a value that is no schema
NoSchema == [wellformed |-> FALSE, entity_types |-> <<>>, actions |-> <<>>]

\* a schema for the requests and the entities of the model, and one whose
\* action applies to other principals and that does not declare folders
PhotoSchema ==
    SchemaOf(<<"User", "Photo", "Folder">>,
             <<SchemaAction("view", <<"User">>, <<"Photo">>)>>)
AdminSchema ==
    SchemaOf(<<"User", "Photo">>,
             <<SchemaAction("view", <<"Admin">>, <<"Photo">>)>>)

SchemaInputs ==
    {None, Some(NoSchema), Some(SchemaOf(<<>>, <<>>)), Some(PhotoSchema)}

RequestPart(p, a, r, c, s) ==
    [principal |-> p, action |-> a, resource |-> r, context |-> c,
     schema |-> s]

RequestParts ==
    {RequestPart(p, a, r, c, s) :
        p \in {None, Some(JsonUid("User", "alice")), Some(JsonUid("", "alice"))},
        a \in {JsonUid("Photo", "view"), JsonUid("", "view"),
               JsonUid("Action", "view")},
        r \in {None, Some(JsonUid("Photo", "door")), Some(JsonUid("", "door"))},
        c \in ContextInputs,
        s \in SchemaInputs}

\* request parts from which a request is always built
GoodRequestParts ==
    {RequestPart(p, JsonUid("Photo", "view"), Some(JsonUid("Photo", "door")),
                 c, None) :
        p \in {None, Some(JsonUid("User", "alice"))},
        c \in {<<>>, <<<<"is_authenticated", JsonBool(TRUE)>>>>,
               <<<<"is_authenticated", JsonBool(FALSE)>>>>}}

\* the text of a call, with and without enable_request_validation
CallTextWith(rp, validation, sl) ==
    [wellformed |-> TRUE, principal |-> rp.principal, action |-> rp.action,
     resource |-> rp.resource, context |-> rp.context, schema |-> rp.schema,
     enable_request_validation |-> validation, slice |-> sl]

CallText(rp, sl) == CallTextWith(rp, None, sl)

\* request parts with a schema that declares their action
ValidatedRequestParts ==
    {RequestPart(Some(JsonUid("User", "alice")), JsonUid("Action", "view"),
                 Some(JsonUid("Photo", "door")), <<>>, Some(s)) :
        s \in {PhotoSchema, AdminSchema}}

\* the call of test_authorized_on_simple_slice_with_context, and the same
\* call from an address outside the range and without authentication
JsonIp(arg) == [kind |-> "extn", fn |-> "ip", arg |-> arg]

ContextCalls ==
    {CallText(
        RequestPart(Some(JsonUid("User", "alice")), JsonUid("Photo", "view"),
                    Some(JsonUid("Photo", "door")),
                    <<<<"is_authenticated", JsonBool(b)>>,
                      <<"source_ip", JsonIp(arg)>>>>,
                    None),
        SliceOf([form |-> "concatenated", texts |-> <<SrcPermitAliceAuthIp>>],
                <<>>,
                [templates |-> None, template_instantiations |-> None])) :
        b \in BOOLEAN,
        arg \in {"222.222.222.222", "222.222.221.222"}}

\* an input string that is no JSON
Garbage == [wellformed |-> FALSE]

\* the input strings: one that is no JSON, every slice with the request
\* parts that build, every request part with the slices that build and with
\* one that does not, and the slices whose templates and links collide
IsInput(in) ==
    \/ in = Garbage
    \/ \E rp \in GoodRequestParts, p \in PolicySpecifications :
            in = CallText(rp, SliceOf(p, <<>>,
                    [templates |-> None, template_instantiations |-> None]))
    \/ \E rp \in GoodRequestParts, p \in FewPolicies,
          e \in EntitiesInputs, t \in TemplateInputs :
            in = CallText(rp, SliceOf(p, e, t))
    \/ \E rp \in RequestParts, sl \in SimpleSlices : in = CallText(rp, sl)
    \/ \E rp \in RequestParts :
            in = CallText(rp, SliceOf(
                    [form |-> "map",
                     entries |-> <<<<PolicyIdOf(0), SrcSyntaxError>>>>],
                    <<>>,
                    [templates |-> None, template_instantiations |-> None]))
    \/ \E rp \in GoodRequestParts, p \in FewPolicies,
          t \in CollidingTemplateInputs \cup TemplateInputs :
            in = CallText(rp, SliceOf(p, <<>>, t))
    \/ in \in ContextCalls
    \/ \E rp \in ValidatedRequestParts,
          v \in {None, Some(TRUE), Some(FALSE)}, e \in EntitiesInputs :
            in = CallTextWith(rp, v, SliceOf(
                    [form |-> "map",
                     entries |-> <<<<PolicyIdOf(0), SrcPermitAll>>>>],
                    e,
                    [templates |-> None, template_instantiations |-> None]))

(***************************************************************************)
(* The state machine: one call of json_is_authorized.                      *)
(***************************************************************************)
Init ==
    /\ IsInput(input)
    /\ pc = "start"
    /\ call = None
    /\ request = None
    /\ policies = PolicySet_new
    /\ entities = Entities_empty
    /\ pending = {}
    /\ satisfied_permits = {}
    /\ satisfied_forbids = {}
    /\ errors = {}
    /\ result = None
    /\ AUTHORIZER = None

\* serde_json::from_str and its error arm
DeserializeTo(r) ==
    IF r.ok
    THEN /\ call' = Some(r.val)
         /\ pc' = "deserialized"
         /\ UNCHANGED result
    ELSE /\ result' = Some(InterfaceResult_fail_internally(
                            "error parsing call: " \o r.errs))
         /\ pc' = "done"
         /\ UNCHANGED call

Deserialize ==
    /\ pc = "start"
    /\ \E hashers \in HasherChoices(input) :
            DeserializeTo(serde_from_str(input, hashers))
    /\ UNCHANGED <<input, request, policies, entities, pending,
                   satisfied_permits, satisfied_forbids, errors, AUTHORIZER>>

\* is_authorized: call.get_components(), and its Err arm
GetComponentsTo(c) ==
    IF c.ok
    THEN /\ request' = Some(c.val.request)
         /\ policies' = c.val.policies
         /\ entities' = c.val.entities
         /\ pending' = DOMAIN c.val.policies.policies
         /\ AUTHORIZER' = LocalKey_with(AUTHORIZER, Authorizer_new)
         /\ pc' = "authorizing"
         /\ UNCHANGED result
    ELSE /\ result' = Some(answer_to_result(ParseFailed(c.errs)))
         /\ pc' = "done"
         /\ UNCHANGED <<request, policies, entities, pending, AUTHORIZER>>

GetComponents ==
    /\ pc = "deserialized"
    /\ GetComponentsTo(get_components(Unwrap(call)))
    /\ UNCHANGED <<input, call, satisfied_permits, satisfied_forbids, errors>>

\* the authorizer evaluates one more policy of the set
SetBags(bags) ==
    /\ satisfied_permits' = bags.satisfied_permits
    /\ satisfied_forbids' = bags.satisfied_forbids
    /\ errors' = bags.errors

EvaluatePolicy(id) ==
    /\ pc = "authorizing"
    /\ id \in pending
    /\ SetBags(authorizer_step(
                    [satisfied_permits |-> satisfied_permits,
                     satisfied_forbids |-> satisfied_forbids,
                     errors |-> errors], id, policies, Unwrap(request)))
    /\ pending' = pending \ {id}
    /\ UNCHANGED <<input, pc, call, request, policies, entities, result,
                   AUTHORIZER>>

\* every policy is evaluated: the decision, converted and returned
Respond ==
    /\ pc = "authorizing"
    /\ pending = {}
    /\ result' = Some(answer_to_result(Success(InterfaceResponse_from(
                    authorizer_decide(
                        [satisfied_permits |-> satisfied_permits,
                         satisfied_forbids |-> satisfied_forbids,
                         errors |-> errors])))))
    /\ pc' = "done"
    /\ UNCHANGED <<input, call, request, policies, entities, pending,
                   satisfied_permits, satisfied_forbids, errors, AUTHORIZER>>

Next ==
    \/ Deserialize
    \/ GetComponents
    \/ \E id \in pending : EvaluatePolicy(id)
    \/ Respond

Spec == Init /\ [][Next]_vars

\* Authorizer::is_authorized, once called, runs on the calling thread and is
\* never suspended for ever: its loop over the policies and its return are
\* eventually taken
Authorize == (\E id \in pending : EvaluatePolicy(id)) \/ Respond

FairSpec == Spec /\ WF_vars(Authorize)

(***************************************************************************)
(* Vocabulary of the properties.                                           *)
(***************************************************************************)
Done == pc = "done" /\ IsSome(result)
Succeeded == Done /\ Unwrap(result).tag = "Success"
Failed == Done /\ Unwrap(result).tag = "Failure"

\* the authorization response inside a Success result
ResponseOf(res) == res.result.response
Response == ResponseOf(Unwrap(result))
Decision == Response.decision
Reason == Response.diagnostics.reason
ErrorStrings == Response.diagnostics.errors

\* the policies the authorizer was given, and how each evaluates on the
\* request of the call
PolicyIdsOfSet(ps) == DOMAIN ps.policies
OutcomeIn(ps, q, id) == evaluate_policy(ps.policies[id], q).outcome
SatisfiedIn(ps, q, effect) ==
    {id \in PolicyIdsOfSet(ps) :
        ps.policies[id].effect = effect /\ OutcomeIn(ps, q, id) = "Satisfied"}
ErroredIn(ps, q) ==
    {id \in PolicyIdsOfSet(ps) : OutcomeIn(ps, q, id) = "Error"}

SatisfiedPermits == SatisfiedIn(policies, Unwrap(request), "permit")
SatisfiedForbids == SatisfiedIn(policies, Unwrap(request), "forbid")
Errored == ErroredIn(policies, Unwrap(request))
PermitIds == {id \in PolicyIdsOfSet(policies) : policies.policies[id].effect = "permit"}

\* the string under which the error of policy id is reported
ErrorStringOf(ps, q, id) ==
    AuthorizationError_to_string(
        [id |-> id, error |-> evaluate_policy(ps.policies[id], q).error])

\* the policies some string of the response's errors reports
ReportedIn(ps, q, strings) ==
    {id \in ErroredIn(ps, q) : ErrorStringOf(ps, q, id) \in strings}

\* the call with one more policy, of text src, under a fresh id
NewPolicyId == "NEW"
AddPolicy(c, src) ==
    IF c.slice.policies.form = "map"
    THEN [c EXCEPT !.slice.policies.map = Append(@, <<NewPolicyId, src>>)]
    ELSE [c EXCEPT !.slice.policies.texts = Append(@, src)]

\* the id the policy added by AddPolicy gets
AddedId(c) ==
    IF c.slice.policies.form = "map" THEN NewPolicyId
    ELSE "policy" \o ToString(Len(c.slice.policies.texts))

\* how the policy of text src evaluates on the request q
OutcomeOfText(src, q) == evaluate_policy(parse_policy_text(src).val, q).outcome
EffectOfText(src) == parse_policy_text(src).val.effect

\* a call was deserialized, its components were built and it was answered
Answered == Succeeded /\ IsSome(call) /\ IsSome(request)

(***************************************************************************)
(* C1  Forbid overrides permit: when at least one forbid policy is         *)
(* satisfied the decision is Deny and reason is exactly the set of the     *)
(* satisfied forbid policies, with no permit id in it, however many permit *)
(* policies are satisfied; and the same call with one more forbid policy   *)
(* that is satisfied on the request is answered Deny.                      *)
(***************************************************************************)
C1_ForbidOverridesPermit ==
    Answered =>
        /\ SatisfiedForbids # {} =>
            /\ Decision = "Deny"
            /\ Reason = SatisfiedForbids
            /\ Reason \cap PermitIds = {}
        /\ \A src \in StaticSources :
            (EffectOfText(src) = "forbid"
             /\ OutcomeOfText(src, Unwrap(request)) = "Satisfied") =>
                LET a == is_authorized(AddPolicy(Unwrap(call), src)) IN
                    /\ a.tag = "Success"
                    /\ a.response.decision = "Deny"
                    /\ AddedId(Unwrap(call)) \in a.response.diagnostics.reason

\* a forbid and two permits are satisfied, and the answer is Deny
C1_Witness ==
    /\ Answered
    /\ SatisfiedForbids # {}
    /\ Cardinality(SatisfiedPermits) >= 2
    /\ Decision = "Deny"

(***************************************************************************)
(* C2  The decision is Allow exactly when no forbid policy is satisfied    *)
(* and some permit policy is; reason is then exactly the set of the        *)
(* satisfied permit policies, and errors is empty when no policy errored.  *)
(***************************************************************************)
C2_AllowIffPermitAndNoForbid ==
    Answered =>
        /\ Decision = "Allow" <=> (SatisfiedForbids = {} /\ SatisfiedPermits # {})
        /\ Decision = "Allow" =>
            /\ Reason = SatisfiedPermits
            /\ Errored = {} => ErrorStrings = {}

\* Allow, with a permit that is satisfied and a permit that is not
C2_Witness ==
    /\ Answered
    /\ Decision = "Allow"
    /\ Reason # {}
    /\ PermitIds \ Reason # {}
    /\ Errored = {}

(***************************************************************************)
(* C3  Default deny: when neither a forbid nor a permit policy is          *)
(* satisfied the decision is Deny with an empty reason, and with empty     *)
(* errors when no policy errored.                                          *)
(***************************************************************************)
C3_DefaultDeny ==
    (Answered /\ SatisfiedForbids = {} /\ SatisfiedPermits = {}) =>
        /\ Decision = "Deny"
        /\ Reason = {}
        /\ Errored = {} => ErrorStrings = {}

\* the empty policy set is answered Deny
C3_Witness ==
    /\ Answered
    /\ PolicyIdsOfSet(policies) = {}
    /\ Decision = "Deny"
    /\ Reason = {}
    /\ ErrorStrings = {}

(***************************************************************************)
(* C4  The reason set and the policies reported in errors are disjoint: a  *)
(* policy that errored is never in reason, an errored forbid policy does   *)
(* not deny and an errored permit policy does not allow.                   *)
(***************************************************************************)
C4_ReasonDisjointFromErrors ==
    Answered =>
        /\ Reason \cap ReportedIn(policies, Unwrap(request), ErrorStrings) = {}
        /\ Reason \cap {e.id : e \in errors} = {}
        /\ Reason \cap Errored = {}
        \* an errored forbid does not deny
        /\ (SatisfiedForbids = {} /\ SatisfiedPermits # {}) => Decision = "Allow"
        \* an errored permit does not allow
        /\ SatisfiedPermits = {} => Decision = "Deny"

\* a forbid policy errored and a permit policy decided
C4_Witness ==
    /\ Answered
    /\ Decision = "Allow"
    /\ \E id \in Errored : policies.policies[id].effect = "forbid"
    /\ \E id \in Errored : policies.policies[id].effect = "permit"
    /\ Reason # {}
    /\ ReportedIn(policies, Unwrap(request), ErrorStrings) # {}

(***************************************************************************)
(* C5  The same call with one more policy, permit or forbid, that errors   *)
(* on the request gets the same decision and the same reason; its errors   *)
(* are those of the call plus the error of the added policy.               *)
(***************************************************************************)
C5_ErroringPolicyChangesNothing ==
    Answered =>
        \A src \in StaticSources :
            OutcomeOfText(src, Unwrap(request)) = "Error" =>
                LET c == AddPolicy(Unwrap(call), src)
                    a == is_authorized(c)
                    comps == get_components(c).val
                IN /\ a.tag = "Success"
                   /\ a.response.decision = Decision
                   /\ a.response.diagnostics.reason = Reason
                   /\ a.response.diagnostics.errors =
                        ErrorStrings \cup
                            {ErrorStringOf(comps.policies, comps.request,
                                           AddedId(Unwrap(call)))}
                   /\ a.response.diagnostics.errors # ErrorStrings

\* a call answered Allow to which an erroring policy can be added
C5_Witness ==
    /\ Answered
    /\ Decision = "Allow"
    /\ \E src \in StaticSources :
        /\ EffectOfText(src) = "forbid"
        /\ OutcomeOfText(src, Unwrap(request)) = "Error"

(***************************************************************************)
(* C6  As claimed: the call with every permit policy removed is answered   *)
(* Deny with an empty reason.                                              *)
(***************************************************************************)
IsForbidText(src) ==
    parse_policy_text(src).ok /\ EffectOfText(src) = "forbid"

\* the entries of a map from ids to policy texts that are forbid policies
ForbidsOf(m) == SelectSeq(m, LAMBDA entry : IsForbidText(entry[2]))

\* the call without its permit policies, permit templates and their links
RemovePermits(c) ==
    LET forbid_templates ==
            IF IsSome(c.slice.templates)
            THEN ForbidsOf(Unwrap(c.slice.templates))
            ELSE <<>>
    IN [c EXCEPT
        !.slice.policies =
            IF @.form = "map"
            THEN [form |-> "map",
                  map |-> ForbidsOf(@.map)]
            ELSE [form |-> "concatenated",
                  texts |-> SelectSeq(@.texts, IsForbidText)],
        !.slice.templates =
            IF IsSome(@) THEN Some(forbid_templates) ELSE None,
        !.slice.template_instantiations =
            IF IsSome(@)
            THEN Some(SelectSeq(Unwrap(@),
                    LAMBDA l : l.template_id \in Keys(forbid_templates)))
            ELSE None]

AnswerWithoutPermits == is_authorized(RemovePermits(Unwrap(call)))

C6_Original ==
    Answered =>
        /\ AnswerWithoutPermits.tag = "Success"
        /\ AnswerWithoutPermits.response.decision = "Deny"
        /\ AnswerWithoutPermits.response.diagnostics.reason = {}

(***************************************************************************)
(* C6  As it holds: the call with every permit policy removed is answered  *)
(* Deny, and reason is exactly the set of the forbid policies that are     *)
(* satisfied: as many as in the call, the same ids when the policies are   *)
(* given by id, and so empty when no forbid policy is satisfied, and only  *)
(* then.                                                                   *)
(***************************************************************************)
ComponentsWithoutPermits == get_components(RemovePermits(Unwrap(call))).val

C6_DenyWithoutPermits ==
    Answered =>
        /\ AnswerWithoutPermits.tag = "Success"
        /\ AnswerWithoutPermits.response.decision = "Deny"
        /\ AnswerWithoutPermits.response.diagnostics.reason =
                SatisfiedIn(ComponentsWithoutPermits.policies,
                            ComponentsWithoutPermits.request, "forbid")
        /\ Cardinality(AnswerWithoutPermits.response.diagnostics.reason) =
                Cardinality(SatisfiedForbids)
        /\ Unwrap(call).slice.policies.form = "map" =>
                AnswerWithoutPermits.response.diagnostics.reason =
                    SatisfiedForbids

\* a call with satisfied permits and a satisfied forbid
C6_Witness ==
    /\ Answered
    /\ SatisfiedPermits # {}
    /\ SatisfiedForbids # {}
    /\ AnswerWithoutPermits.response.diagnostics.reason # {}

(***************************************************************************)
(* C7  The authorizer evaluates every policy of the set: the bags hold     *)
(* the outcome of every policy evaluated so far, whatever the others did,  *)
(* the call is answered only when no policy is left, and the errors of the *)
(* response then hold one entry for each policy that errored and no other. *)
(***************************************************************************)
Evaluated == PolicyIdsOfSet(policies) \ pending

C7_EveryPolicyEvaluated ==
    (pc \in {"authorizing", "done"} /\ IsSome(request)) =>
        /\ {e.id : e \in errors} = Errored \cap Evaluated
        /\ satisfied_permits = SatisfiedPermits \cap Evaluated
        /\ satisfied_forbids = SatisfiedForbids \cap Evaluated
        /\ pc = "done" =>
            /\ pending = {}
            /\ Succeeded
            /\ ReportedIn(policies, Unwrap(request), ErrorStrings) = Errored
            /\ Cardinality(ErrorStrings) = Cardinality(Errored)

\* two policies errored and the request is denied by a forbid policy
C7_Witness ==
    /\ Answered
    /\ Cardinality(Errored) >= 2
    /\ SatisfiedForbids # {}
    /\ Cardinality(ErrorStrings) >= 2

(***************************************************************************)
(* C8  Once the request, the policy set and the entities are built the     *)
(* call terminates with exactly one decision, Allow or Deny, whatever      *)
(* evaluation errors the policies raise.                                   *)
(***************************************************************************)
C8_Terminates ==
    (pc = "authorizing") ~> (Succeeded /\ Decision \in {"Allow", "Deny"})

\* a call whose policies raised errors, and that was decided
C8_Witness ==
    /\ Answered
    /\ Errored # {}
    /\ Decision = "Deny"
    /\ Reason = {}

(***************************************************************************)
(* C9  As claimed: whenever the input string cannot be deserialized, or    *)
(* the request, policies or entities cannot be built from the call, the    *)
(* result is a "bad request" failure carrying the parse messages.          *)
(***************************************************************************)
DeserializationFailed ==
    Done /\ \A hashers \in HasherChoices(input) :
                ~serde_from_str(input, hashers).ok
BuildFailed == Done /\ IsSome(call) /\ ~get_components(Unwrap(call)).ok

IsBadRequest(res) ==
    res.tag = "Failure" /\ ~res.is_internal /\ res.errors # <<>>

C9_Original ==
    (DeserializationFailed \/ BuildFailed) => IsBadRequest(Unwrap(result))

(***************************************************************************)
(* C9  As it holds: when the request, policies or entities cannot be built *)
(* from a deserialized call the result is a "bad request" failure carrying *)
(* the errors of get_components; when the input string cannot be           *)
(* deserialized the result is an internal failure carrying the one message *)
(* "error parsing call: ..." of the deserializer.                          *)
(***************************************************************************)
C9_ParseFailures ==
    /\ BuildFailed =>
        /\ IsBadRequest(Unwrap(result))
        /\ Unwrap(result).errors = get_components(Unwrap(call)).errs
    /\ DeserializationFailed =>
        /\ Unwrap(result).tag = "Failure"
        /\ Unwrap(result).is_internal
        /\ \A hashers \in HasherChoices(input) :
                Unwrap(result).errors =
                    <<"error parsing call: "
                      \o serde_from_str(input, hashers).errs>>

\* a call whose slice does not build: a bad request with its messages
C9_Witness ==
    /\ BuildFailed
    /\ ~try_into(Unwrap(call).slice, None).ok
    /\ Len(Unwrap(result).errors) >= 2

(***************************************************************************)
(* C10  Whenever the request, the policy set and the entities are built    *)
(* the result is a Success holding a decision, also when policies raise    *)
(* evaluation errors: each error is a string of diagnostics.errors, and    *)
(* the result is never a failure.                                          *)
(***************************************************************************)
C10_SuccessDespiteErrors ==
    (Done /\ IsSome(call) /\ get_components(Unwrap(call)).ok) =>
        /\ Succeeded
        /\ Decision \in {"Allow", "Deny"}
        /\ ErrorStrings =
            {ErrorStringOf(policies, Unwrap(request), id) : id \in Errored}
        /\ Unwrap(result) = json_is_authorized_match(Ok(Unwrap(call)))
        /\ \E hashers \in HasherChoices(input) :
                /\ Ok(Unwrap(call)) = serde_from_str(input, hashers)
                /\ Unwrap(result) = json_is_authorized(input, hashers)

\* a Success whose diagnostics hold the errors of two policies
C10_Witness ==
    /\ Answered
    /\ Decision = "Allow"
    /\ Cardinality(ErrorStrings) >= 2

(***************************************************************************)
(* C11  The failures of json_is_authorized fall in two classes.  An input  *)
(* that is no JSON, or whose text repeats a key (a policy id of the        *)
(* policies map, a template id, a context key, a slot of one instantiation *)
(* list), fails internally.  A deserialized call in which ids collide (a   *)
(* template with the id of a static policy, a link whose result id is the  *)
(* id of a policy, of a template or of an earlier link, two entities with  *)
(* the same uid) fails as a bad request: a failure that is not internal.   *)
(***************************************************************************)
\* what the text of the input repeats
RepeatsPolicyId(in) ==
    in.slice.policies.form = "map" /\ HasDuplicateKey(in.slice.policies.entries)
RepeatsTemplateId(in) ==
    IsSome(in.slice.templates) /\ HasDuplicateKey(Unwrap(in.slice.templates))
RepeatsContextKey(in) == HasDuplicateKey(in.context)
RepeatsSlot(in) ==
    /\ IsSome(in.slice.template_instantiations)
    /\ \E l \in Range(Unwrap(in.slice.template_instantiations)) :
        \E i, j \in 1..Len(l.instantiations) :
            i < j /\ l.instantiations[i].slot = l.instantiations[j].slot

RepeatsKey(in) ==
    in.wellformed /\ (RepeatsPolicyId(in) \/ RepeatsTemplateId(in)
                      \/ RepeatsContextKey(in) \/ RepeatsSlot(in))

\* the ids that the policies and the templates of a deserialized call take
SliceIds(c) ==
    (IF c.slice.policies.form = "map" THEN Keys(c.slice.policies.map)
     ELSE {"policy" \o ToString(i - 1) : i \in 1..Len(c.slice.policies.texts)})
    \cup (IF c.slice.policies.form = "map" /\ IsSome(c.slice.templates)
          THEN Keys(Unwrap(c.slice.templates)) ELSE {})

\* a template of the call has the id of a static policy of the call
PolicyTemplateCollision(c) ==
    /\ c.slice.policies.form = "map"
    /\ IsSome(c.slice.templates)
    /\ Keys(c.slice.policies.map) \cap Keys(Unwrap(c.slice.templates)) # {}

\* the i-th link of the call has the result id of a policy, of a template or
\* of an earlier link
LinkCollidesAt(c, i) ==
    LET insts == Unwrap(c.slice.template_instantiations) IN
    \/ insts[i].result_policy_id \in SliceIds(c)
    \/ \E j \in 1..(i - 1) :
        insts[j].result_policy_id = insts[i].result_policy_id

LinkCollision(c) ==
    /\ IsSome(c.slice.template_instantiations)
    /\ \E i \in 1..Len(Unwrap(c.slice.template_instantiations)) :
        LinkCollidesAt(c, i)

\* two entries of the entities list have the same uid
DuplicateEntityUid(c) ==
    \E i, j \in 1..Len(c.slice.entities) :
        i < j /\ c.slice.entities[i].uid = c.slice.entities[j].uid

IdsCollide(c) ==
    PolicyTemplateCollision(c) \/ LinkCollision(c) \/ DuplicateEntityUid(c)

IsInternalFailure(res) ==
    res.tag = "Failure" /\ res.is_internal /\ res.errors # <<>>

C11_FailureClasses ==
    Done =>
        /\ (~input.wellformed \/ RepeatsKey(input)) =>
                /\ ~IsSome(call)
                /\ IsInternalFailure(Unwrap(result))
        /\ (IsSome(call) /\ IdsCollide(Unwrap(call))) =>
                IsBadRequest(Unwrap(result))

\* a call in which a template has the id of a static policy, refused as a
\* bad request
C11_Witness ==
    /\ Done
    /\ IsSome(call)
    /\ PolicyTemplateCollision(Unwrap(call))
    /\ ~LinkCollision(Unwrap(call))
    /\ IsBadRequest(Unwrap(result))

(***************************************************************************)
(* C12  A template instantiation whose result_policy_id is the id of a     *)
(* static policy, of a template (the one being linked included) or of the  *)
(* policy of an earlier instantiation of the call is refused with an       *)
(* "Error instantiating template" error, and the call returns a failure    *)
(* and no decision, even when earlier instantiations of the call           *)
(* succeeded.  When the policies and the entities of the slice were built  *)
(* and hold the template of the link, the error names the id that          *)
(* conflicts.                                                              *)
(***************************************************************************)
StartsWith(str, prefix) ==
    Len(str) >= Len(prefix) /\ SubSeq(str, 1, Len(prefix)) = prefix

\* the error of parse_instantiations for a result id that is taken
LinkConflictError(id) ==
    "Error instantiating template: unable to link template: "
    \o "template-linked policy id '" \o id
    \o "' conflicts with an existing policy id"

\* the policies and the entities of the slice are built before the links
SliceBuiltBeforeLinks(c) ==
    slice_start(Entities_from_json_value(c.slice.entities, CallSchema(c)),
                slice_policy_set(c.slice)).errs = <<>>

\* the template that the i-th link names is in the policy set of the slice
LinkNamesTemplate(c, i) ==
    /\ SliceBuiltBeforeLinks(c)
    /\ Unwrap(c.slice.template_instantiations)[i].template_id
            \in DOMAIN slice_policy_set(c.slice).val.templates

C12_LinkCollisionRefused ==
    (Done /\ IsSome(call) /\ LinkCollision(Unwrap(call))) =>
        /\ Unwrap(result).tag = "Failure"
        /\ ~Succeeded
        /\ \E e \in Range(Unwrap(result).errors) :
                StartsWith(e, "Error instantiating template")
        /\ \A i \in 1..Len(Unwrap(Unwrap(call).slice.template_instantiations)) :
                (LinkCollidesAt(Unwrap(call), i)
                 /\ LinkNamesTemplate(Unwrap(call), i)) =>
                    \E e \in Range(Unwrap(result).errors) :
                        e = LinkConflictError(
                                Unwrap(Unwrap(call).slice.template_instantiations)[i]
                                    .result_policy_id)

\* two links with the same result id: the first one succeeded, the second
\* one is the only error of the call
C12_Witness ==
    /\ Done
    /\ IsSome(call)
    /\ IsSome(Unwrap(call).slice.template_instantiations)
    /\ Len(Unwrap(Unwrap(call).slice.template_instantiations)) = 2
    /\ LinkCollidesAt(Unwrap(call), 2)
    /\ ~LinkCollidesAt(Unwrap(call), 1)
    /\ Unwrap(result).tag = "Failure"
    /\ Unwrap(result).errors = <<LinkConflictError("L0")>>

(***************************************************************************)
(* The functions of the program taken one at a time: a behaviour is one    *)
(* call of one function on one input, and the value it returns.            *)
(***************************************************************************)
\* longest list of links handed to Links::try_from
MaxLinks == 4

LinkValues == {LinkOf(s, "User", e) :
                s \in {"?action", "?principal", "?resource"},
                e \in {"alice", "bob"}}

\* the links handed to parse_instantiations: every slot name with an
\* entity type that parses and with one that does not
LinkInputs == {LinkOf(s, ty, "alice") :
                s \in {"?action", "?principal", "?resource"},
                ty \in {"User", ""}}

\* the policy sets handed to parse_instantiations: the empty one, one with
\* a template of one slot, one with a template of two slots, and one that
\* has a policy with the id of the link as well
PolicySetInputs ==
    LET with(src) == PolicySet_add_template(PolicySet_new,
                        Template_parse("T0", src).val).val
    IN {PolicySet_new, with(SrcTemplate), with(SrcTemplateBoth),
        PolicySet_add(with(SrcTemplate),
                      Policy_parse("L0", SrcPermitAll).val).val}

\* the maps handed to parse_policy_set_from_individual_policies: under each
\* id a static policy, a template, or a text that does not parse
MapInputs(ids) ==
    UNION {{[i \in 1..Len(order) |-> <<order[i], f[order[i]]>>] :
                f \in [D -> {SrcPermitAll, SrcTemplate, SrcSyntaxError}],
                order \in Orders(D)} :
            D \in SUBSET ids}

\* the small operands of the arithmetic are the integers -MaxSmall..MaxSmall
MaxSmall == 3

\* the operands of the arithmetic: the small integers, the powers of two
\* 2^31, 2^32 and 2^62, the two integers around the square root of 2^63,
\* i64::MAX and i64::MAX - 1, the negations of all of them, and i64::MIN
I64Inputs ==
    LET small == {Digits(n, I64Bytes) : n \in 0..MaxSmall}
        large == {<<0, 0, 0, 128, 0, 0, 0, 0>>, <<0, 0, 0, 0, 1, 0, 0, 0>>,
                  <<0, 0, 0, 0, 0, 0, 0, 64>>,
                  <<51, 243, 4, 181, 0, 0, 0, 0>>,
                  <<52, 243, 4, 181, 0, 0, 0, 0>>,
                  wrapping_sub(I64_MAX, Digits(1, I64Bytes)), I64_MAX}
    IN small \cup large \cup {wrapping_neg(a) : a \in small \cup large}
       \cup {I64_MIN}

\* a request with the context ctx
RequestOf(ctx) ==
    [principal |-> Some(Alice), action |-> Some(View), resource |-> Some(Door),
     context |-> ctx]

\* the contexts of the requests: without attribute, and with one
ContextValues ==
    {<<>>, [k \in {"is_authenticated"} |-> BoolValue(TRUE)],
     [k \in {"is_authenticated"} |-> BoolValue(FALSE)]}

\* the expressions handed to the evaluator: one arithmetic operation on
\* two operands
Expressions ==
    {[op |-> o, arg1 |-> [op |-> "long", val |-> a],
      arg2 |-> [op |-> "long", val |-> b]] :
        o \in {"Add", "Sub"}, a \in I64Inputs, b \in I64Inputs}
    \cup {[op |-> "mul", arg |-> [op |-> "long", val |-> a], constant |-> b] :
            a \in I64Inputs, b \in I64Inputs}
    \cup {[op |-> "neg", arg |-> [op |-> "long", val |-> a]] : a \in I64Inputs}

\* one &&, || or if on operands: the two booleans, a context attribute
\* (missing or a boolean) and its negation, a long, and a sum that overflows
GuardedExpressions ==
    LET Operands ==
            {[op |-> "lit", b |-> TRUE], [op |-> "lit", b |-> FALSE],
             [op |-> "context_attr", attr |-> "is_authenticated"],
             [op |-> "not",
              arg |-> [op |-> "context_attr", attr |-> "is_authenticated"]],
             [op |-> "long", val |-> Digits(1, I64Bytes)],
             [op |-> "Add", arg1 |-> [op |-> "long", val |-> I64_MAX],
              arg2 |-> [op |-> "long", val |-> Digits(1, I64Bytes)]]}
    IN {[op |-> o, arg1 |-> l, arg2 |-> r] :
            o \in {"and", "or"}, l \in Operands, r \in Operands}
       \cup {[op |-> "ite", test_expr |-> c, then_expr |-> t,
               else_expr |-> f] :
                c \in Operands, t \in Operands, f \in Operands}

\* the policy set of the one policy "permit(principal, action, resource)
\* when { e };" under the id policy0
PolicySetOf(e) ==
    [policies |-> [k \in {"policy0"} |->
                     [effect |-> "permit", principal |-> AnyEntity,
                      resource |-> AnyEntity, cond |-> e]],
     templates |-> <<>>]

\* the entities of the hierarchies, lowest first: an entity has its parents
\* among the entities after it, so that no hierarchy has a cycle
Hierarchy ==
    <<JsonUid("Photo", "door"), JsonUid("Folder", "house"),
      JsonUid("Folder", "estate"), JsonUid("Folder", "world")>>

\* the "entities" lists: each of the first three entities is left out or
\* given with some of the entities after it as parents; the last is never
\* given, so it is a parent that the store does not hold
HierarchyInputs ==
    LET entry(i, ps) ==
            [uid |-> Hierarchy[i], attrs |-> <<>>,
             parents |-> [k \in 1..Len(SetToSeq(ps)) |->
                            Hierarchy[SetToSeq(ps)[k]]]]
        choices(i) ==
            {<<>>} \cup {<<entry(i, ps)>> :
                            ps \in SUBSET ((i + 1)..Len(Hierarchy))}
    IN {c3 \o c1 \o c2 :
            c1 \in choices(1), c2 \in choices(2), c3 \in choices(3)}

\* the advice strings handed to set_advice and to the constructors
Advices == {"consider a cast", "consider using the partial evaluation APIs"}

\* a constructor of EvaluationError with its arguments, and the advice adv
\* that set_advice is called with afterwards
IsErrorInput(in, adv) ==
    \/ \E u \in {Alice, Door} :
            in = [fn |-> "EvaluationError", ctor |-> "entity_does_not_exist",
                  euid |-> u, advice |-> adv]
    \/ \E u \in {Alice, Door}, a \in {"owner", "is_authenticated"} :
            in = [fn |-> "EvaluationError",
                  ctor |-> "entity_attr_does_not_exist", entity |-> u,
                  attr |-> a, advice |-> adv]
    \/ \E a \in {"owner", "is_authenticated"} :
            in = [fn |-> "EvaluationError",
                  ctor |-> "unspecified_entity_access", attr |-> a,
                  advice |-> adv]
    \/ \E a \in {"owner", "is_authenticated"},
          alts \in {<<>>, <<"owner">>, <<"is_authenticated", "source_ip">>} :
            in = [fn |-> "EvaluationError",
                  ctor |-> "record_attr_does_not_exist", attr |-> a,
                  alternatives |-> alts, advice |-> adv]
    \/ \E c \in {"type_error", "type_error_with_advice"},
          ex \in {<<"bool">>, <<"long", "string">>}, ac \in {"long", "set"},
          given \in Advices :
            in = [fn |-> "EvaluationError", ctor |-> c, expected |-> ex,
                  actual |-> ac, given |-> given, advice |-> adv]
    \/ \E c \in {"type_error_single", "type_error_with_advice_single"},
          ex \in {"bool", "long"}, ac \in {"string", "set"}, given \in Advices :
            in = [fn |-> "EvaluationError", ctor |-> c, expected |-> ex,
                  actual |-> ac, given |-> given, advice |-> adv]
    \/ \E ex \in 1..2, ac \in 0..3 :
            in = [fn |-> "EvaluationError", ctor |-> "wrong_num_arguments",
                  function_name |-> "ip", expected |-> ex, actual |-> ac,
                  advice |-> adv]
    \/ \E id \in {"?principal", "?resource"} :
            in = [fn |-> "EvaluationError", ctor |-> "unlinked_slot",
                  id |-> id, advice |-> adv]
    \/ \E m \in {"invalid IP address", "overflow"} :
            in = [fn |-> "EvaluationError",
                  ctor |-> "failed_extension_function_application",
                  extension_name |-> "ipaddr", msg |-> m, advice |-> adv]
    \/ \E e \in {"unknown(\"x\")", "unknown(\"x\") && true"} :
            in = [fn |-> "EvaluationError", ctor |-> "non_value", e |-> e,
                  advice |-> adv]
    \/ in = [fn |-> "EvaluationError", ctor |-> "recursion_limit",
             advice |-> adv]
    \/ \E t \in {"FailedExtensionFunctionLookup",
                  "InvalidRestrictedExpression"},
          h \in {None, Some("see the documentation")},
          c \in {None, Some("cedar::error")} :
            in = [fn |-> "EvaluationError", ctor |-> "from", tag |-> t,
                  err |-> [msg |-> "not allowed here", help |-> h, code |-> c],
                  advice |-> adv]
    \/ \E a \in {I64_MAX, I64_MIN} :
            in = [fn |-> "EvaluationError", ctor |-> "from_overflow",
                  err |-> [tag |-> "UnaryOp", op |-> "Neg",
                           arg |-> LongValue(a)],
                  advice |-> adv]

\* the Links handed to parse_instantiations: the lists of at most MaxLinks
\* links that Links::try_from has converted
LinksInputs ==
    {l \in UNION {[1..k -> LinkInputs] : k \in 0..MaxLinks} :
        Links_try_from(l).ok}

\* the inputs of the functions: the lists of at most MaxLinks links, the
\* expressions with the requests they are evaluated on, and the policy sets
\* with the requests they are asked about
IsFnInput(in) ==
    \/ \E l \in UNION {[1..k -> LinkValues] : k \in 0..MaxLinks} :
            in = [fn |-> "Links::try_from", links |-> l]
    \/ \E e \in Expressions :
            in = [fn |-> "interpret", e |-> e, q |-> RequestOf(<<>>)]
    \/ \E e \in GuardedExpressions, ctx \in ContextValues :
            in = [fn |-> "interpret", e |-> e, q |-> RequestOf(ctx)]
    \/ \E e \in GuardedExpressions, ctx \in ContextValues :
            in = [fn |-> "Authorizer::is_authorized", q |-> RequestOf(ctx),
                  pset |-> PolicySetOf(e)]
    \/ \E adv \in Advices : IsErrorInput(in, adv)
    \/ \E l \in HierarchyInputs, a \in 1..Len(Hierarchy),
          d \in 1..Len(Hierarchy) :
            in = [fn |-> "is_ancestor_of", entities |-> l,
                  a |-> Hierarchy[a], d |-> Hierarchy[d]]
    \/ \E ps \in PolicySetInputs, t \in {"T0", "T1"}, r \in {"L0", "L1"},
          l \in LinksInputs :
            in = [fn |-> "parse_instantiations", policies |-> ps,
                  instantiation |-> TemplateLinkOf(t, r, l)]
    \/ \E p \in MapInputs({"ID0", "ID1"}),
          t \in {None} \cup {Some(m) : m \in MapInputs({"ID0", "T0"})} :
            in = [fn |-> "parse_policy_set_from_individual_policies",
                  policies |-> p, templates |-> t]

FnInit ==
    /\ IsFnInput(input)
    /\ pc = "call"
    /\ call = None
    /\ request = None
    /\ policies = IF input.fn = "parse_instantiations"
                  THEN input.policies ELSE PolicySet_new
    /\ entities = Entities_empty
    /\ pending = {}
    /\ satisfied_permits = {}
    /\ satisfied_forbids = {}
    /\ errors = {}
    /\ result = None
    /\ AUTHORIZER = None

\* the function returns v
Returns(v) ==
    /\ result' = Some(v)
    /\ pc' = "returned"
    /\ UNCHANGED <<input, call, request, policies, entities, pending,
                   satisfied_permits, satisfied_forbids, errors, AUTHORIZER>>

\* Links::try_from(links)
ConvertLinks ==
    /\ pc = "call"
    /\ input.fn = "Links::try_from"
    /\ Returns(Links_try_from(input.links))

\* the evaluator on one expression and one request
Interpret ==
    /\ pc = "call"
    /\ input.fn = "interpret"
    /\ Returns(interpret(input.e, input.q))

\* Authorizer::is_authorized on one request and one policy set
IsAuthorized ==
    /\ pc = "call"
    /\ input.fn = "Authorizer::is_authorized"
    /\ Returns(Authorizer_is_authorized(input.q, input.pset, Entities_empty))

\* one constructor of impl EvaluationError, or one of the From impls
Construct ==
    /\ pc = "call"
    /\ input.fn = "EvaluationError"
    /\ Returns(
        CASE input.ctor = "entity_does_not_exist" ->
                entity_does_not_exist(input.euid)
          [] input.ctor = "entity_attr_does_not_exist" ->
                entity_attr_does_not_exist(input.entity, input.attr)
          [] input.ctor = "unspecified_entity_access" ->
                unspecified_entity_access(input.attr)
          [] input.ctor = "record_attr_does_not_exist" ->
                record_attr_does_not_exist(input.attr, input.alternatives)
          [] input.ctor = "type_error" ->
                type_error(input.expected, input.actual)
          [] input.ctor = "type_error_single" ->
                type_error_single(input.expected, input.actual)
          [] input.ctor = "type_error_with_advice" ->
                type_error_with_advice(input.expected, input.actual,
                                       input.given)
          [] input.ctor = "type_error_with_advice_single" ->
                type_error_with_advice_single(input.expected, input.actual,
                                              input.given)
          [] input.ctor = "wrong_num_arguments" ->
                wrong_num_arguments(input.function_name, input.expected,
                                    input.actual)
          [] input.ctor = "unlinked_slot" -> unlinked_slot(input.id)
          [] input.ctor = "failed_extension_function_application" ->
                failed_extension_function_application(input.extension_name,
                                                      input.msg)
          [] input.ctor = "non_value" -> non_value(input.e)
          [] input.ctor = "recursion_limit" -> recursion_limit
          [] input.ctor = "from" -> EvaluationError_from(input.tag, input.err)
          [] input.ctor = "from_overflow" ->
                EvaluationError_from_IntegerOverflowError(input.err))

\* Entities::from_json_value, then is_ancestor_of on the entities loaded
IsAncestorOf ==
    /\ pc = "call"
    /\ input.fn = "is_ancestor_of"
    /\ Returns(is_ancestor_of(Entities_from_json_value(input.entities,
                                                        None).val,
                              EntityUid_from_json(input.a).val,
                              EntityUid_from_json(input.d).val))

\* EvaluationError::set_advice on the error that was constructed
SetAdvice ==
    /\ pc = "returned"
    /\ input.fn = "EvaluationError"
    /\ result' = Some(set_advice(Unwrap(result), input.advice))
    /\ pc' = "advised"
    /\ UNCHANGED <<input, call, request, policies, entities, pending,
                   satisfied_permits, satisfied_forbids, errors, AUTHORIZER>>

\* parse_instantiations(&mut policies, instantiation)
ParseInstantiations ==
    /\ pc = "call"
    /\ input.fn = "parse_instantiations"
    /\ LET r == parse_instantiations(policies, input.instantiation) IN
         /\ policies' = r.policies
         /\ result' = Some(IF r.errs = <<>> THEN Ok(<<>>) ELSE Err(r.errs))
    /\ pc' = "returned"
    /\ UNCHANGED <<input, call, request, entities, pending,
                   satisfied_permits, satisfied_forbids, errors, AUTHORIZER>>

\* parse_policy_set_from_individual_policies(&policies, templates)
ParsePolicySet ==
    /\ pc = "call"
    /\ input.fn = "parse_policy_set_from_individual_policies"
    /\ Returns(parse_policy_set_from_individual_policies(
                    input.policies, input.templates))

FnNext ==
    \/ ConvertLinks
    \/ ParsePolicySet
    \/ ParseInstantiations
    \/ Interpret
    \/ IsAuthorized
    \/ Construct
    \/ SetAdvice
    \/ IsAncestorOf

FnSpec == FnInit /\ [][FnNext]_vars

Returned(fn) == pc = "returned" /\ input.fn = fn

(***************************************************************************)
(* C13  Links::try_from succeeds, and keeps the list as it is, exactly     *)
(* when no slot name occurs twice in the list.  Otherwise it fails with    *)
(* Duplicates, which lists the slot names that occur two or more times:    *)
(* all of them and no other, each one once, in sorted order, however often *)
(* a slot occurs and whatever the slots are linked to.                     *)
(***************************************************************************)
Occurrences(links, s) == Cardinality({i \in 1..Len(links) : links[i].slot = s})

SlotsOf(links) == {links[i].slot : i \in 1..Len(links)}

\* the order of str::cmp on the slot names of the inputs
SlotLess(a, b) ==
    <<a, b>> \in {<<"?action", "?principal">>, <<"?action", "?resource">>,
                  <<"?principal", "?resource">>}

C13_LinksTryFrom ==
    Returned("Links::try_from") =>
        LET links == input.links
            r == Unwrap(result)
        IN /\ r.ok <=> \A s \in SlotsOf(links) : Occurrences(links, s) = 1
           /\ r.ok => r.val = links
           /\ ~r.ok =>
                /\ Range(r.errs) =
                        {s \in SlotsOf(links) : Occurrences(links, s) >= 2}
                /\ \A i, j \in 1..Len(r.errs) :
                        i < j => SlotLess(r.errs[i], r.errs[j])

\* a list in which two slots occur twice each, the greater of them first
\* and with different values, as in
\* test_authorized_fails_on_duplicate_slot_instantiation3: the conversion
\* failed with the two slots, the smaller first
C13_Witness ==
    /\ Returned("Links::try_from")
    /\ link_slots(input.links)
         = <<"?resource", "?principal", "?resource", "?principal">>
    /\ input.links[1].value # input.links[3].value
    /\ ~Unwrap(result).ok
    /\ Unwrap(result).errs = <<"?principal", "?resource">>

(***************************************************************************)
(* C14  An entities input in which two entries have the same uid is        *)
(* refused when the entities are built: the call returns a failure with an *)
(* error that names the entity given twice, the authorizer is not called   *)
(* and there is no decision.                                               *)
(***************************************************************************)
\* the uids that two entries of the entities list of a call have
UidsGivenTwice(c) ==
    {c.slice.entities[i].uid : i \in
        {k \in 1..Len(c.slice.entities) :
            \E j \in 1..(k - 1) : c.slice.entities[j].uid = c.slice.entities[k].uid}}

DuplicateEntityError(uid) ==
    "duplicate entity entry '" \o uid.type \o "::\"" \o uid.id \o "\"'"

C14_DuplicateEntityRefused ==
    (Done /\ IsSome(call) /\ RequestBuilt(Unwrap(call))
     /\ DuplicateEntityUid(Unwrap(call))) =>
        /\ Unwrap(result).tag = "Failure"
        /\ ~Unwrap(result).is_internal
        /\ \E u \in UidsGivenTwice(Unwrap(call)) :
                DuplicateEntityError(u) \in Range(Unwrap(result).errors)
        /\ request = None
        /\ Evaluated = {}
        /\ satisfied_permits = {} /\ satisfied_forbids = {}

\* User::"alice" is given twice with a permit for every request: a failure
\* whose only error names the entity
C14_Witness ==
    /\ Done
    /\ IsSome(call)
    /\ DuplicateEntityUid(Unwrap(call))
    /\ Unwrap(call).slice.policies.form = "map"
    /\ \E id \in Keys(Unwrap(call).slice.policies.map) :
            MapGet(Unwrap(call).slice.policies.map, id) = SrcPermitAll
    /\ Unwrap(result).errors =
            <<DuplicateEntityError(JsonUid("User", "alice"))>>

(***************************************************************************)
(* C15  A call whose context gives the same key twice is refused with a    *)
(* failure: the call is never deserialized, so no request is built from    *)
(* either value of the key, the authorizer is not called and there is no   *)
(* decision.                                                               *)
(***************************************************************************)
C15_DuplicateContextKeyRefused ==
    (input.wellformed /\ RepeatsContextKey(input)) =>
        /\ call = None
        /\ request = None
        /\ pc \in {"start", "done"}
        /\ Done =>
            /\ Unwrap(result).tag = "Failure"
            /\ Len(Unwrap(result).errors) = 1
            /\ StartsWith(Unwrap(result).errors[1],
                    "error parsing call: invalid entry: found duplicate key"
                    \o " at line 1 column ")

\* the context of test_authorized_fails_duplicate_context_key, refused
C15_Witness ==
    /\ Done
    /\ input.wellformed
    /\ input.context = <<<<"is_authenticated", JsonBool(TRUE)>>,
                         <<"is_authenticated", JsonBool(FALSE)>>>>
    /\ input.slice.policies.entries = <<>>
    /\ input.principal = None
    /\ input.resource = None
    /\ input.action = JsonUid("Photo", "view")
    /\ Unwrap(result).tag = "Failure"
    /\ Unwrap(result).errors =
            <<"error parsing call: invalid entry: found duplicate key"
              \o " at line 1 column 108">>

(***************************************************************************)
(* C16  Ids are unique across the static policies and the templates of a   *)
(* policy set: a slice in which a static policy and a template that both   *)
(* parse have the same id is refused with the error "couldn't add policy   *)
(* to set due to error: duplicate template or policy id" naming the id,    *)
(* and the call returns a failure and no decision.                         *)
(***************************************************************************)
\* the ids that a static policy and a template of the call share: the
\* text under policies parses as a static policy, the one under templates
\* as a template
SharedIds(c) ==
    IF PolicyTemplateCollision(c)
    THEN {id \in Keys(c.slice.policies.map)
                    \cap Keys(Unwrap(c.slice.templates)) :
            /\ Policy_parse(id, MapGet(c.slice.policies.map, id)).ok
            /\ Template_parse(id, MapGet(Unwrap(c.slice.templates), id)).ok}
    ELSE {}

DuplicateIdError(id) ==
    "couldn't add policy to set due to error: "
    \o "duplicate template or policy id '" \o id \o "'"

C16_PolicyTemplateIdsUnique ==
    (Done /\ IsSome(call)) =>
        \A id \in SharedIds(Unwrap(call)) :
            /\ Unwrap(result).tag = "Failure"
            /\ ~Unwrap(result).is_internal
            /\ DuplicateIdError(id) \in Range(Unwrap(result).errors)
            /\ request = None
            /\ Evaluated = {}

\* the slice of test_authorized_fails_on_policy_collision_with_template
C16_Witness ==
    /\ Done
    /\ IsSome(call)
    /\ SharedIds(Unwrap(call)) = {"ID0"}
    /\ MapGet(Unwrap(call).slice.policies.map, "ID0") = SrcPermitAll
    /\ Unwrap(result).errors = <<DuplicateIdError("ID0")>>

(***************************************************************************)
(* C17  A template that is never linked takes no part in authorization: a  *)
(* slice whose only policy texts are templates, given under templates or   *)
(* in the string of concatenated policies, and that has no instantiation   *)
(* is answered Success with decision Deny and no error, whenever the       *)
(* request and the entities of the call are built; the same slice with a   *)
(* template linked to the principal of the request is answered Allow with  *)
(* no error.  A template under an id of the policies map is no such slice: *)
(* it is refused as a policy that is not static.                           *)
(***************************************************************************)
CouldNotParse(id) == "couldn't parse policy with id '" \o id \o "'"

IsTemplateText(src) ==
    parse_policy_text(src).ok /\ Slots(parse_policy_text(src).val) # {}

\* the policy texts of a call given as policies, by their ids
PolicyTexts(c) ==
    IF c.slice.policies.form = "map" THEN c.slice.policies.map
    ELSE [i \in 1..Len(c.slice.policies.texts) |->
            <<"policy" \o ToString(i - 1), c.slice.policies.texts[i]>>]

\* try_into hands the templates to the parsing of a policies map only:
\* beside a string of concatenated policies they are left out
TemplateTexts(c) ==
    IF c.slice.policies.form = "map" /\ IsSome(c.slice.templates)
    THEN Unwrap(c.slice.templates) ELSE <<>>

\* the ids of the policy texts of a call whose only policy texts are
\* templates, each under an id of its own; empty when the call has another
\* policy text, or none
OnlyTemplates(c) ==
    IF /\ \A id \in Keys(PolicyTexts(c)) :
            IsTemplateText(MapGet(PolicyTexts(c), id))
       /\ \A id \in Keys(TemplateTexts(c)) :
            IsTemplateText(MapGet(TemplateTexts(c), id))
       /\ Keys(PolicyTexts(c)) \cap Keys(TemplateTexts(c)) = {}
    THEN Keys(PolicyTexts(c)) \cup Keys(TemplateTexts(c))
    ELSE {}

\* no template is given as the text of a policy of the policies map
NoTemplateInPoliciesMap(c) ==
    c.slice.policies.form = "map" => c.slice.policies.map = <<>>

NoInstantiation(c) ==
    ~IsSome(c.slice.template_instantiations)
    \/ Unwrap(c.slice.template_instantiations) = <<>>

\* the request and the entities of the call are built
RestOfCallBuilt(c) ==
    /\ RequestBuilt(c)
    /\ Entities_from_json_value(c.slice.entities, CallSchema(c)).ok

\* the text under the id tid is a template of the one slot ?principal
PrincipalTemplate(c, tid) ==
    LET src == MapGet(PolicyTexts(c) \o TemplateTexts(c), tid)
    IN Slots(parse_policy_text(src).val) = {"?principal"}

\* the call with the template tid linked to the principal of the request
LinkedToPrincipal(c, tid) ==
    [c EXCEPT !.slice.template_instantiations =
        Some(<<TemplateLinkOf(tid, "linked",
                <<LinkOf("?principal", Unwrap(c.principal).type,
                         Unwrap(c.principal).id)>>)>>)]

\* the call is answered Deny without error, and Allow when a template of
\* it is linked to the principal
DeniedUntilLinked ==
    /\ Succeeded
    /\ Decision = "Deny"
    /\ ErrorStrings = {}
    /\ Reason = {}
    /\ Evaluated = {}
    /\ IsSome(Unwrap(call).principal) =>
        \A tid \in OnlyTemplates(Unwrap(call)) :
            PrincipalTemplate(Unwrap(call), tid) =>
                LET a == is_authorized(LinkedToPrincipal(Unwrap(call), tid))
                IN /\ a.tag = "Success"
                   /\ a.response.decision = "Allow"
                   /\ a.response.diagnostics.reason = {"linked"}
                   /\ a.response.diagnostics.errors = {}

\* the claim as it is worded: wherever the template text is given
C17_Original ==
    (Done /\ IsSome(call) /\ RestOfCallBuilt(Unwrap(call))
          /\ OnlyTemplates(Unwrap(call)) # {}
          /\ NoInstantiation(Unwrap(call))) => DeniedUntilLinked

C17_UnlinkedTemplateIsInert ==
    /\ (Done /\ IsSome(call) /\ RestOfCallBuilt(Unwrap(call))
             /\ OnlyTemplates(Unwrap(call)) # {}
             /\ NoTemplateInPoliciesMap(Unwrap(call))
             /\ NoInstantiation(Unwrap(call))) => DeniedUntilLinked
    /\ (Done /\ IsSome(call) /\ RestOfCallBuilt(Unwrap(call))
             /\ OnlyTemplates(Unwrap(call)) # {}
             /\ ~NoTemplateInPoliciesMap(Unwrap(call))) =>
            /\ Unwrap(result).tag = "Failure"
            /\ ~Unwrap(result).is_internal
            /\ \A id \in Keys(Unwrap(call).slice.policies.map) :
                \E k \in DOMAIN Unwrap(result).errors :
                    Unwrap(result).errors[k] = CouldNotParse(id)

\* the call with the templates of its policies string given under
\* templates, as test_authorized_with_template_should_fail gives them
UnderTemplates(c) ==
    [c EXCEPT !.slice.policies = [form |-> "map", map |-> <<>>],
              !.slice.templates = Some(PolicyTexts(c))]

\* the call of test_authorized_with_template_as_policy_should_fail, the
\* template in the policies string, asked by User::"alice": denied, and
\* denied as well with the template under templates
C17_Witness ==
    /\ Succeeded
    /\ RestOfCallBuilt(Unwrap(call))
    /\ Unwrap(call).slice.policies
         = [form |-> "concatenated", texts |-> <<SrcTemplate>>]
    /\ OnlyTemplates(Unwrap(call)) = {"policy0"}
    /\ NoInstantiation(Unwrap(call))
    /\ Unwrap(call).principal = Some(JsonUid("User", "alice"))
    /\ Decision = "Deny"
    /\ ErrorStrings = {}
    /\ OnlyTemplates(UnderTemplates(Unwrap(call))) = {"policy0"}
    /\ is_authorized(UnderTemplates(Unwrap(call))).tag = "Success"
    /\ is_authorized(UnderTemplates(Unwrap(call))).response.decision = "Deny"

(***************************************************************************)
(* C18  Integer arithmetic never wraps.  For all 64-bit integers a and b,  *)
(* a + b, a - b and a * b evaluate to the long that is the mathematical    *)
(* sum, difference or product when that number is a 64-bit integer, and to *)
(* the evaluation error IntegerOverflow when it is not: never to a value   *)
(* that wrapped around.                                                    *)
(***************************************************************************)
\* x as len bytes, the bytes above taken as zero
ZeroExtend(x, len) == [i \in 1..len |-> IF i <= Len(x) THEN x[i] ELSE 0]

\* |a| as an unsigned number of WideBytes bytes
Magnitude(a) ==
    ZeroExtend(IF IsNegative(a) THEN wrapping_neg(a) ELSE a, WideBytes)

\* the mathematical results, as numbers of WideBytes bytes: no sum,
\* difference or product of two 64-bit integers leaves that range
MathSum(a, b) ==
    wrapping_add(SignExtend(a, WideBytes), SignExtend(b, WideBytes))
MathDifference(a, b) ==
    wrapping_sub(SignExtend(a, WideBytes), SignExtend(b, WideBytes))
MathProduct(a, b) ==
    IF IsNegative(a) # IsNegative(b)
    THEN wrapping_neg(wrapping_mul(Magnitude(a), Magnitude(b)))
    ELSE wrapping_mul(Magnitude(a), Magnitude(b))
MathNegation(a) ==
    wrapping_sub(ZeroBytes(WideBytes), SignExtend(a, WideBytes))

\* the wide number is a 64-bit integer
Fits(w) == w = SignExtend(Truncate(w, I64Bytes), WideBytes)

\* the operands of the arithmetic expression e of two literals
LeftOperand(e) == IF e.op \in {"mul", "neg"} THEN e.arg.val ELSE e.arg1.val
RightOperand(e) == IF e.op = "mul" THEN e.constant ELSE e.arg2.val

MathResult(e) ==
    CASE e.op = "Add" -> MathSum(LeftOperand(e), RightOperand(e))
      [] e.op = "Sub" -> MathDifference(LeftOperand(e), RightOperand(e))
      [] e.op = "mul" -> MathProduct(LeftOperand(e), RightOperand(e))
      [] e.op = "neg" -> MathNegation(LeftOperand(e))

\* the evaluation failed with an integer overflow
IsOverflow(r) == ~r.ok /\ r.errs.error_kind.tag = "IntegerOverflow"

\* the evaluation returned the long whose value is the wide number w
IsLong(r, w) ==
    /\ r.ok
    /\ r.val.ty = "long"
    /\ r.val.val = Truncate(w, I64Bytes)
    /\ Fits(w)

C18_ArithmeticNeverWraps ==
    (Returned("interpret") /\ input.e.op \in {"Add", "Sub", "mul"}) =>
        IF Fits(MathResult(input.e))
        THEN IsLong(Unwrap(result), MathResult(input.e))
        ELSE IsOverflow(Unwrap(result))

\* i64::MAX + 1 is evaluated, and reports the overflow
C18_Witness ==
    /\ Returned("interpret")
    /\ input.e.op = "Add"
    /\ LeftOperand(input.e) = I64_MAX
    /\ RightOperand(input.e) = Digits(1, I64Bytes)
    /\ ~Fits(MathResult(input.e))
    /\ IsOverflow(Unwrap(result))

(***************************************************************************)
(* C19  The overflow error identifies the operation.  An overflow of a + b *)
(* or a - b is the error BinaryOp with the operator and both operands, and *)
(* its message names the operation; an overflow of a * c is the error      *)
(* Multiplication with the argument and the constant; -a overflows exactly *)
(* when a is i64::MIN, with the error UnaryOp that holds the operator and  *)
(* the operand, and is the negated long for every other a.                 *)
(***************************************************************************)
\* the overflow error of the evaluation r
OverflowOf(r) == r.errs.error_kind.err

\* what the message of an overflow of e starts with
OverflowMessageStart(e) ==
    CASE e.op = "Add" -> "integer overflow while attempting to add the values '"
      [] e.op = "Sub" ->
            "integer overflow while attempting to subtract the values '"
      [] e.op = "mul" -> "integer overflow while attempting to multiply '"
      [] e.op = "neg" -> "integer overflow while attempting to negate the value '"

OverflowIdentified(e, r) ==
    /\ r.errs.advice = None
    /\ StartsWith(EvaluationError_to_string(r.errs), OverflowMessageStart(e))
    /\ CASE e.op \in {"Add", "Sub"} ->
                OverflowOf(r) = [tag |-> "BinaryOp", op |-> e.op,
                                 arg1 |-> LongValue(LeftOperand(e)),
                                 arg2 |-> LongValue(RightOperand(e))]
         [] e.op = "mul" ->
                OverflowOf(r) = [tag |-> "Multiplication",
                                 arg |-> LongValue(LeftOperand(e)),
                                 constant |-> RightOperand(e)]
         [] e.op = "neg" ->
                OverflowOf(r) = [tag |-> "UnaryOp", op |-> "Neg",
                                 arg |-> LongValue(LeftOperand(e))]

C19_OverflowIdentifiesOperation ==
    (Returned("interpret") /\ input.e.op \in {"Add", "Sub", "mul", "neg"}) =>
        /\ IsOverflow(Unwrap(result)) =>
                OverflowIdentified(input.e, Unwrap(result))
        /\ input.e.op = "neg" =>
                IF LeftOperand(input.e) = I64_MIN
                THEN IsOverflow(Unwrap(result))
                ELSE IsLong(Unwrap(result), MathNegation(LeftOperand(input.e)))

\* -i64::MIN is evaluated, and reports the overflow of the negation
C19_Witness ==
    /\ Returned("interpret")
    /\ input.e.op = "neg"
    /\ LeftOperand(input.e) = I64_MIN
    /\ IsOverflow(Unwrap(result))
    /\ EvaluationError_to_string(Unwrap(result).errs)
         = "integer overflow while attempting to negate the value "
           \o "'-9223372036854775808'"

(***************************************************************************)
(* C20  Short-circuit suppression.  For every expression e, false && e is  *)
(* false and true || e is true, also when e alone raises an evaluation     *)
(* error; if c then t else e evaluates to what the branch that c selects   *)
(* evaluates to, whatever the other branch does; and a policy with such a  *)
(* condition reports no evaluation error.                                  *)
(***************************************************************************)
\* the expression evaluates to the boolean b on the request q
IsBool(r, b) == r.ok /\ r.val.ty = "bool" /\ r.val.val = b
EvaluatesTo(e, q, b) == IsBool(interpret(e, q), b)

\* two evaluations with the same outcome
SameResult(r, s) ==
    /\ r.ok = s.ok
    /\ IF r.ok THEN r.val.ty = s.val.ty /\ r.val = s.val
       ELSE r.errs.error_kind.tag = s.errs.error_kind.tag /\ r.errs = s.errs

\* the expression raises an evaluation error on the request q
Raises(e, q) == ~interpret(e, q).ok

\* the expression evaluates to a boolean on the request q
IsCondition(e, q) == EvaluatesTo(e, q, TRUE) \/ EvaluatesTo(e, q, FALSE)

\* the guard of e decides it on q: false && _, true || _, and if with a
\* boolean test that selects a branch which evaluates to a boolean
Decided(e, q) ==
    CASE e.op = "and" -> EvaluatesTo(e.arg1, q, FALSE)
      [] e.op = "or" -> EvaluatesTo(e.arg1, q, TRUE)
      [] e.op = "ite" ->
            \/ EvaluatesTo(e.test_expr, q, TRUE) /\ IsCondition(e.then_expr, q)
            \/ EvaluatesTo(e.test_expr, q, FALSE) /\ IsCondition(e.else_expr, q)
      [] OTHER -> FALSE

\* the part of e that its guard leaves aside
Suppressed(e, q) ==
    CASE e.op \in {"and", "or"} -> e.arg2
      [] e.op = "ite" ->
            IF EvaluatesTo(e.test_expr, q, TRUE) THEN e.else_expr
            ELSE e.then_expr

C20_ShortCircuitSuppression ==
    /\ (Returned("interpret") /\ input.e.op \in {"and", "or", "ite"}) =>
        /\ (input.e.op = "and" /\ EvaluatesTo(input.e.arg1, input.q, FALSE))
                => IsBool(Unwrap(result), FALSE)
        /\ (input.e.op = "or" /\ EvaluatesTo(input.e.arg1, input.q, TRUE))
                => IsBool(Unwrap(result), TRUE)
        /\ (input.e.op = "ite" /\ EvaluatesTo(input.e.test_expr, input.q, TRUE))
                => SameResult(Unwrap(result),
                              interpret(input.e.then_expr, input.q))
        /\ (input.e.op = "ite" /\ EvaluatesTo(input.e.test_expr, input.q, FALSE))
                => SameResult(Unwrap(result),
                              interpret(input.e.else_expr, input.q))
    /\ (Returned("Authorizer::is_authorized")
        /\ Decided(input.pset.policies["policy0"].cond, input.q)) =>
            Unwrap(result).diagnostics.errors = {}

\* a policy whose condition is true || e, with an e that raises an error
\* alone, is evaluated: it permits, and no error is reported
C20_Witness ==
    /\ Returned("Authorizer::is_authorized")
    /\ input.pset.policies["policy0"].cond.op = "or"
    /\ Decided(input.pset.policies["policy0"].cond, input.q)
    /\ Raises(Suppressed(input.pset.policies["policy0"].cond, input.q), input.q)
    /\ Unwrap(result).decision = "Allow"
    /\ Unwrap(result).diagnostics.errors = {}

(***************************************************************************)
(* C21  Every NonValue error carries an advice, the one to use the partial *)
(* evaluation APIs, so it always has a help text; an error built by any    *)
(* other constructor or From impl, the type-error-with-advice constructors *)
(* excepted, starts with no advice.                                        *)
(***************************************************************************)
\* the error that the constructor called has returned
Constructed == Unwrap(result)

WithAdvice == {"type_error_with_advice", "type_error_with_advice_single"}

C21_NonValueCarriesAdvice ==
    Returned("EvaluationError") =>
        /\ input.ctor = "non_value" =>
            /\ Constructed.error_kind.tag = "NonValue"
            /\ Constructed.advice
                 = Some("consider using the partial evaluation APIs")
            /\ help(Constructed) # None
        /\ input.ctor \notin WithAdvice \cup {"non_value"} =>
                Constructed.advice = None
        /\ input.ctor \in WithAdvice => Constructed.advice = Some(input.given)

\* a NonValue error is constructed, and its help is the advice
C21_Witness ==
    /\ Returned("EvaluationError")
    /\ input.ctor = "non_value"
    /\ help(Constructed) = Some("consider using the partial evaluation APIs")

(***************************************************************************)
(* C22  The help of an EvaluationError combines the help of its kind and   *)
(* its advice: absent when both are absent, the one that is present when   *)
(* exactly one is, and "<help>; <advice>", the help of the kind first,     *)
(* when both are.  set_advice replaces the advice and leaves the kind, the *)
(* message and the code of the error as they were.                         *)
(***************************************************************************)
\* the help of the kind of the error e, and its advice
KindHelp(e) == EvaluationErrorKind_help(e.error_kind)

HelpCombines(e) ==
    /\ (KindHelp(e) = None /\ e.advice = None) => help(e) = None
    /\ (KindHelp(e) # None /\ e.advice = None) => help(e) = KindHelp(e)
    /\ (KindHelp(e) = None /\ e.advice # None) => help(e) = e.advice
    /\ (KindHelp(e) # None /\ e.advice # None) =>
            help(e) = Some(Unwrap(KindHelp(e)) \o "; " \o Unwrap(e.advice))

HasError == input.fn = "EvaluationError" /\ pc \in {"returned", "advised"}

SetAdviceReplaces ==
    (pc = "returned" /\ pc' = "advised" /\ input.fn = "EvaluationError") =>
        /\ Unwrap(result').advice = Some(input.advice)
        /\ Unwrap(result').error_kind = Unwrap(result).error_kind
        /\ EvaluationError_to_string(Unwrap(result'))
             = EvaluationError_to_string(Unwrap(result))
        /\ code(Unwrap(result')) = code(Unwrap(result))

C22_HelpCombinesKindAndAdvice ==
    [](HasError => HelpCombines(Unwrap(result)))
    /\ [][SetAdviceReplaces]_vars

\* set_advice has been called on an error whose kind has a help: the help
\* is that of the kind, then the advice
C22_Witness ==
    /\ pc = "advised"
    /\ input.fn = "EvaluationError"
    /\ input.ctor = "record_attr_does_not_exist"
    /\ input.alternatives = <<"is_authenticated", "source_ip">>
    /\ input.advice = "consider a cast"
    /\ help(Unwrap(result))
         = Some("available attributes: [\"is_authenticated\", \"source_ip\"]"
                \o "; consider a cast")

(***************************************************************************)
(* C23  is_ancestor_of(a, d) is true exactly when d is in the entity store *)
(* and a is reached from d by one or more steps from an entity of the      *)
(* input to one of the parents listed for it.  When d is not in the store  *)
(* the answer is false and no error; every parent listed for an entity of  *)
(* the input is an ancestor of it after loading.                           *)
(***************************************************************************)
\* the entry of the entity u in the list json, if it has one
EntriesOf(json, u) == {i \in 1..Len(json) : json[i].uid = u}

\* p is listed as a parent of u in the list json
ListedParent(json, u, p) ==
    \E i \in EntriesOf(json, u) : p \in Range(json[i].parents)

\* a is reached from d in the list json by a path of parent steps
ReachedByParents(json, d, a) ==
    \E k \in 1..Len(Hierarchy) :
        \E path \in [1..(k + 1) -> Range(Hierarchy)] :
            /\ path[1] = d
            /\ path[k + 1] = a
            /\ \A i \in 1..k : ListedParent(json, path[i], path[i + 1])

C23_IsAncestorOf ==
    Returned("is_ancestor_of") =>
        /\ Unwrap(result) \in BOOLEAN
        /\ Unwrap(result) <=>
                (/\ EntriesOf(input.entities, input.d) # {}
                 /\ ReachedByParents(input.entities, input.d, input.a))
        /\ EntriesOf(input.entities, input.d) = {} => ~Unwrap(result)
        /\ ListedParent(input.entities, input.d, input.a) => Unwrap(result)

\* an entity two parent steps above the descendant, and not listed as its
\* parent, is reported as its ancestor
C23_Witness ==
    /\ Returned("is_ancestor_of")
    /\ ~ListedParent(input.entities, input.d, input.a)
    /\ \E m \in Range(Hierarchy) :
            /\ ListedParent(input.entities, input.d, m)
            /\ ListedParent(input.entities, m, input.a)
    /\ Unwrap(result) = TRUE

(***************************************************************************)
(* C24  RecvdSlice::try_into returns Ok, with the policy set and the       *)
(* entities, exactly when the entities parse, the policies parse and every *)
(* template instantiation succeeds.  Otherwise it returns all the errors   *)
(* collected: the entity error first, then the policy errors, then the     *)
(* errors of the instantiations in the order of the input; an              *)
(* instantiation is attempted also after an earlier one has failed.        *)
(***************************************************************************)
\* the errors of the entities and of the policies of the slice
EntityErrors(sl, schema) ==
    LET ents == Entities_from_json_value(sl.entities, schema) IN
    IF ents.ok THEN <<>> ELSE <<ents.errs>>

PolicyErrors(sl) ==
    LET policy_set == slice_policy_set(sl) IN
    IF policy_set.ok THEN <<>> ELSE policy_set.errs

\* the template instantiations of the slice
InstantiationsOf(sl) ==
    IF IsSome(sl.template_instantiations)
    THEN Unwrap(sl.template_instantiations) ELSE <<>>

\* the policy set that the i-th instantiation of the slice is linked into:
\* that of the slice, or the empty one when the slice has an error, after
\* the instantiations before the i-th
RECURSIVE SetBeforeLink(_, _, _)
SetBeforeLink(sl, schema, i) ==
    IF i = 1
    THEN (IF EntityErrors(sl, schema) \o PolicyErrors(sl) = <<>>
          THEN slice_policy_set(sl).val ELSE PolicySet_new)
    ELSE parse_instantiations(SetBeforeLink(sl, schema, i - 1),
                              InstantiationsOf(sl)[i - 1]).policies

\* the errors of the i-th instantiation
LinkErrors(sl, schema, i) ==
    parse_instantiations(SetBeforeLink(sl, schema, i), InstantiationsOf(sl)[i]).errs

\* the errors of the instantiations from the i-th on, in the input's order
RECURSIVE LinkErrorsFrom(_, _, _)
LinkErrorsFrom(sl, schema, i) ==
    IF i > Len(InstantiationsOf(sl)) THEN <<>>
    ELSE LinkErrors(sl, schema, i) \o LinkErrorsFrom(sl, schema, i + 1)

\* the request of the call is built: get_components reaches the slice
SliceConverts(sl, schema) ==
    LET converted == try_into(sl, schema) IN
    /\ converted.ok <=>
            /\ EntityErrors(sl, schema) = <<>>
            /\ PolicyErrors(sl) = <<>>
            /\ \A i \in 1..Len(InstantiationsOf(sl)) : LinkErrors(sl, schema, i) = <<>>
    /\ converted.ok =>
            /\ converted.val.entities
                    = Entities_from_json_value(sl.entities, schema).val
            /\ converted.val.policies
                    = SetBeforeLink(sl, schema, Len(InstantiationsOf(sl)) + 1)
    /\ ~converted.ok =>
            converted.errs
                = EntityErrors(sl, schema) \o PolicyErrors(sl)
                  \o LinkErrorsFrom(sl, schema, 1)

C24_TryIntoCollectsAllErrors ==
    IsSome(call) =>
        LET converted == try_into(Unwrap(call).slice,
                                  CallSchema(Unwrap(call))) IN
        /\ pc = "deserialized" =>
                SliceConverts(Unwrap(call).slice, CallSchema(Unwrap(call)))
        /\ (Done /\ RequestBuilt(Unwrap(call)) /\ ~converted.ok) =>
                /\ Unwrap(result).tag = "Failure"
                /\ Unwrap(result).errors = converted.errs
        /\ (Done /\ RequestBuilt(Unwrap(call)) /\ converted.ok) =>
                /\ Unwrap(result).tag = "Success"
                /\ policies = converted.val.policies
                /\ entities = converted.val.entities

\* a call whose policies do not parse and whose two instantiations both
\* fail is answered with the policy errors, then the error of the first
\* instantiation, then that of the second
C24_Witness ==
    /\ Done
    /\ IsSome(call)
    /\ RequestBuilt(Unwrap(call))
    /\ EntityErrors(Unwrap(call).slice, CallSchema(Unwrap(call))) = <<>>
    /\ PolicyErrors(Unwrap(call).slice) # <<>>
    /\ Len(InstantiationsOf(Unwrap(call).slice)) = 2
    /\ Len(LinkErrors(Unwrap(call).slice,
            CallSchema(Unwrap(call)), 1)) = 1
    /\ Len(LinkErrors(Unwrap(call).slice,
            CallSchema(Unwrap(call)), 2)) = 1
    /\ LinkErrors(Unwrap(call).slice,
            CallSchema(Unwrap(call)), 1) # LinkErrors(Unwrap(call).slice,
            CallSchema(Unwrap(call)), 2)
    /\ Unwrap(result).errors
         = PolicyErrors(Unwrap(call).slice)
           \o LinkErrors(Unwrap(call).slice,
            CallSchema(Unwrap(call)), 1)
           \o LinkErrors(Unwrap(call).slice,
            CallSchema(Unwrap(call)), 2)

(***************************************************************************)
(* C25  get_components fails fast, in a fixed order: schema, principal,    *)
(* action, resource, context, construction of the request, slice.  The    *)
(* errors returned are those of the first stage that fails and of no       *)
(* other; the authorizer is not invoked, and the answer is ParseFailed     *)
(* with those errors, a failure that is not internal.                      *)
(***************************************************************************)
Stages ==
    <<"schema", "principal", "action", "resource", "context", "request",
      "slice">>

\* the errors of one stage of get_components on the call c, taken alone;
\* the request is constructed from the five parts before it, and has no
\* errors of its own when one of them is missing
StageErrors(c, stage) ==
    CASE stage = "schema" ->
            IF IsSome(c.schema) /\ ~Schema_from_json_value(Unwrap(c.schema)).ok
            THEN <<Schema_from_json_value(Unwrap(c.schema)).errs>> ELSE <<>>
      [] stage = "principal" ->
            IF IsSome(c.principal)
               /\ ~EntityUid_from_json(Unwrap(c.principal)).ok
            THEN <<"Failed to parse principal",
                   EntityUid_from_json(Unwrap(c.principal)).errs>>
            ELSE <<>>
      [] stage = "action" ->
            IF ~EntityUid_from_json(c.action).ok
            THEN <<"Failed to parse action",
                   EntityUid_from_json(c.action).errs>>
            ELSE <<>>
      [] stage = "resource" ->
            IF IsSome(c.resource)
               /\ ~EntityUid_from_json(Unwrap(c.resource)).ok
            THEN <<"Failed to parse resource",
                   EntityUid_from_json(Unwrap(c.resource)).errs>>
            ELSE <<>>
      [] stage = "context" ->
            IF ~ContextOf(c).ok THEN <<ContextOf(c).errs>> ELSE <<>>
      [] stage = "request" ->
            IF RequestPartsBuilt(c) /\ ~CallRequest(c).ok
            THEN <<CallRequest(c).errs>> ELSE <<>>
      [] stage = "slice" ->
            LET converted == try_into(c.slice, CallSchema(c)) IN
            IF converted.ok THEN <<>> ELSE converted.errs

StageFails(c, k) == StageErrors(c, Stages[k]) # <<>>

\* the stages of the call c that fail when taken alone
FailingStages(c) == {k \in DOMAIN Stages : StageFails(c, k)}

\* the first of them
FirstFailingStage(c) ==
    LET failing == FailingStages(c) IN
    CHOOSE k \in failing : \A j \in failing : k <= j

\* the authorizer has not been given anything
AuthorizerIdle ==
    /\ request = None
    /\ policies = PolicySet_new
    /\ entities = Entities_empty
    /\ pending = {}
    /\ satisfied_permits = {}
    /\ satisfied_forbids = {}
    /\ errors = {}

C25_GetComponentsFailsFast ==
    (Done /\ IsSome(call)) =>
        LET failing == FailingStages(Unwrap(call)) IN
        /\ failing # {} =>
                /\ Unwrap(result).tag = "Failure"
                /\ ~Unwrap(result).is_internal
                /\ Unwrap(result).errors
                     = StageErrors(Unwrap(call),
                            Stages[CHOOSE k \in failing :
                                        \A j \in failing : k <= j])
                /\ AuthorizerIdle
        /\ failing = {} =>
                /\ Unwrap(result).tag = "Success"
                /\ ~AuthorizerIdle

\* a call whose principal, action, context and slice all fail is answered
\* with the two errors of the principal
C25_Witness ==
    /\ Done
    /\ IsSome(call)
    /\ \A s \in {"principal", "action", "context", "slice"} :
            StageErrors(Unwrap(call), s) # <<>>
    /\ Stages[FirstFailingStage(Unwrap(call))] = "principal"
    /\ Len(Unwrap(result).errors) = 2
    /\ Unwrap(result).errors[1] = "Failed to parse principal"
    /\ AuthorizerIdle

(***************************************************************************)
(* C26  parse_instantiations leaves the policy set as it was whenever it   *)
(* returns an error before linking: at the first link whose slot is        *)
(* neither "?principal" nor "?resource" or whose entity type does not      *)
(* parse it returns the error of that link, and policies.link is not       *)
(* called.  When it calls policies.link, the map from slot to entity has   *)
(* exactly one entry for each link of the instantiation.                   *)
(***************************************************************************)
ParsedInstantiations ==
    pc = "returned" /\ input.fn = "parse_instantiations"

\* the links of the instantiation, and the one with the slot s
LinksGiven == input.instantiation.instantiations

LinkWithSlot(s) ==
    LinksGiven[CHOOSE i \in DOMAIN LinksGiven : LinksGiven[i].slot = s]

\* the link names no slot, or an entity type that does not parse
NoSlot(v) == v.slot # "?principal" /\ v.slot # "?resource"
NoType(v) == ~NoSlot(v) /\ ~IsValidTypeName(v.value.ty)

UnparsedLinks == {i \in DOMAIN LinksGiven :
                NoSlot(LinksGiven[i]) \/ NoType(LinksGiven[i])}

FirstUnparsedLink == CHOOSE i \in UnparsedLinks : \A j \in UnparsedLinks : i <= j

\* the map from slot to entity with one entry for each link
OneEntryPerLink ==
    [s \in {LinksGiven[i].slot : i \in DOMAIN LinksGiven} |->
        Uid(LinkWithSlot(s).value.ty, LinkWithSlot(s).value.eid)]

\* policies.link on the policy set of the input with that map
Linked ==
    PolicySet_link(input.policies, input.instantiation.template_id,
                   input.instantiation.result_policy_id, OneEntryPerLink)

C26_NoLinkAfterParseError ==
    ParsedInstantiations =>
        /\ UnparsedLinks # {} =>
                /\ policies = input.policies
                /\ ~Unwrap(result).ok
                /\ Unwrap(result).errs
                     = parse_instantiation(LinksGiven[FirstUnparsedLink]).errs
                /\ NoSlot(LinksGiven[FirstUnparsedLink]) =>
                     Unwrap(result).errs
                       = <<"Slot must by \"?principal\" or \"?resource\"">>
        /\ UnparsedLinks = {} =>
                /\ Cardinality(DOMAIN OneEntryPerLink) = Len(LinksGiven)
                /\ collect_vals(LinksGiven, 1, <<>>) = Ok(OneEntryPerLink)
                /\ Linked.ok =>
                        /\ Unwrap(result).ok
                        /\ policies = Linked.val
                /\ ~Linked.ok =>
                        /\ ~Unwrap(result).ok
                        /\ Unwrap(result).errs
                             = <<"Error instantiating template: "
                                 \o Linked.errs>>
                        /\ policies = input.policies

\* an instantiation of a template that the policy set has, with a first
\* link that fills the slot of the template and a second one whose slot is
\* no slot: the error of the second link is returned and the policy set is
\* as it was
C26_Witness ==
    /\ ParsedInstantiations
    /\ Len(LinksGiven) = 2
    /\ UnparsedLinks = {2}
    /\ NoSlot(LinksGiven[2])
    /\ "T0" \in DOMAIN input.policies.templates
    /\ input.instantiation.template_id = "T0"
    /\ Slots(input.policies.templates["T0"]) = {LinksGiven[1].slot}
    /\ input.instantiation.result_policy_id \notin PolicySet_ids(input.policies)
    /\ ~Unwrap(result).ok
    /\ policies = input.policies

(***************************************************************************)
(* C27  parse_policy_set_from_individual_policies returns Ok, with the     *)
(* policy set, exactly when every policy and every template parses and is  *)
(* added to the set without a conflict of ids.  Otherwise it returns the   *)
(* list of errors, which has at least one entry for every policy and every *)
(* template that failed: a failure does not end the processing of the      *)
(* others.                                                                 *)
(***************************************************************************)
ParsedPolicySet ==
    pc = "returned"
    /\ input.fn = "parse_policy_set_from_individual_policies"

TemplatesGiven ==
    IF IsSome(input.templates) THEN Unwrap(input.templates) ELSE <<>>

\* the ids of the policies and of the templates whose text does not parse
UnparsedPolicies ==
    {id \in Keys(input.policies) :
        ~Policy_parse(id, MapGet(input.policies, id)).ok}

UnparsedTemplates ==
    {id \in Keys(TemplatesGiven) :
        ~Template_parse(id, MapGet(TemplatesGiven, id)).ok}

\* the ids of the templates that parse and meet a policy of the same id in
\* the set
ConflictingTemplates ==
    (Keys(TemplatesGiven) \ UnparsedTemplates)
    \cap (Keys(input.policies) \ UnparsedPolicies)


\* how often the string e is in the list of errors errs
ErrorCount(errs, e) == Cardinality({i \in DOMAIN errs : errs[i] = e})

\* the policy set of the policies and templates of the input, all added
WholeSet ==
    [policies |-> [id \in Keys(input.policies) |->
                        Policy_parse(id, MapGet(input.policies, id)).val.ast],
     templates |-> [id \in Keys(TemplatesGiven) |->
                        Template_parse(id, MapGet(TemplatesGiven, id)).val.ast]]

C27_PolicySetCollectsAllErrors ==
    ParsedPolicySet =>
        /\ Unwrap(result).ok <=>
                /\ UnparsedPolicies = {}
                /\ UnparsedTemplates = {}
                /\ ConflictingTemplates = {}
        /\ Unwrap(result).ok => Unwrap(result).val = WholeSet
        /\ ~Unwrap(result).ok =>
                /\ \A id \in UnparsedPolicies \cup UnparsedTemplates :
                        ErrorCount(Unwrap(result).errs, CouldNotParse(id))
                            = Cardinality({id} \cap UnparsedPolicies)
                              + Cardinality({id} \cap UnparsedTemplates)
                /\ \A id \in ConflictingTemplates :
                        ErrorCount(Unwrap(result).errs, DuplicateIdError(id))
                            = 1
                /\ Len(Unwrap(result).errs)
                        >= Cardinality(UnparsedPolicies)
                           + Cardinality(UnparsedTemplates)
                           + Cardinality(ConflictingTemplates)

\* two policies that do not parse, a template that does not parse and a
\* template that meets no conflict: the errors name both policies and the
\* failing template
C27_Witness ==
    /\ ParsedPolicySet
    /\ UnparsedPolicies = {"ID0", "ID1"}
    /\ UnparsedTemplates = {"ID0"}
    /\ Keys(TemplatesGiven) = {"ID0", "T0"}
    /\ ~Unwrap(result).ok
    /\ ErrorCount(Unwrap(result).errs, CouldNotParse("ID0")) = 2
    /\ ErrorCount(Unwrap(result).errs, CouldNotParse("ID1")) = 1

(***************************************************************************)
(* Several threads calling json_is_authorized.  Every variable holds, for  *)
(* each thread, what it holds for the one thread of Spec: input and result *)
(* the strings handed to the calls of the thread so far and the values     *)
(* returned, the others the locals of the call that the thread is in, and  *)
(* AUTHORIZER the thread's slot of the thread-local static.  A step is a   *)
(* step of one thread, and the threads are scheduled in any order.         *)
(***************************************************************************)
Threads == {"t1", "t2"}

\* number of calls a thread makes
MaxCalls == 2

\* the strings the threads call with: one that is no JSON, a call with two
\* policies that do not parse, a call that is denied by a forbid policy and
\* a call that is allowed with an evaluation error
ThreadInputs ==
    LET none == [templates |-> None, template_instantiations |-> None]
        both(src0, src1) == [form |-> "map",
                             entries |-> <<<<PolicyIdOf(0), src0>>,
                                           <<PolicyIdOf(1), src1>>>>]
        two(src) == both(SrcPermitAll, src)
        part(p, c) == RequestPart(p, JsonUid("Photo", "view"),
                                  Some(JsonUid("Photo", "door")), c, None)
    IN {Garbage,
        CallText(part(Some(JsonUid("User", "alice")), <<>>),
                 SliceOf(both(SrcSyntaxError, SrcSyntaxError), <<>>, none)),
        CallText(part(Some(JsonUid("User", "alice")),
                      <<<<"is_authenticated", JsonBool(TRUE)>>>>),
                 SliceOf(two(SrcForbidAuth), <<>>, none)),
        CallText(part(Some(JsonUid("User", "alice")), <<>>),
                 SliceOf(two(SrcPermitAuth), <<>>, none))}

\* the slot of the thread_local! static that a thread gets: a static that
\* all threads share, and the thread's own
thread_local_shared(t) == CHOOSE u \in Threads : TRUE

thread_local(t) == t

Last(seq) == seq[Len(seq)]

ThreadInit ==
    /\ input = [t \in Threads |-> <<>>]
    /\ pc = [t \in Threads |-> "idle"]
    /\ call = [t \in Threads |-> None]
    /\ request = [t \in Threads |-> None]
    /\ policies = [t \in Threads |-> PolicySet_new]
    /\ entities = [t \in Threads |-> Entities_empty]
    /\ pending = [t \in Threads |-> {}]
    /\ satisfied_permits = [t \in Threads |-> {}]
    /\ satisfied_forbids = [t \in Threads |-> {}]
    /\ errors = [t \in Threads |-> {}]
    /\ result = [t \in Threads |-> <<>>]
    /\ AUTHORIZER = [t \in Threads |-> None]

\* the thread t calls json_is_authorized(in)
Call(t, in) ==
    /\ pc[t] = "idle"
    /\ Len(input[t]) < MaxCalls
    /\ input' = [input EXCEPT ![t] = Append(@, in)]
    /\ pc' = [pc EXCEPT ![t] = "start"]
    /\ call' = [call EXCEPT ![t] = None]
    /\ request' = [request EXCEPT ![t] = None]
    /\ policies' = [policies EXCEPT ![t] = PolicySet_new]
    /\ entities' = [entities EXCEPT ![t] = Entities_empty]
    /\ pending' = [pending EXCEPT ![t] = {}]
    /\ satisfied_permits' = [satisfied_permits EXCEPT ![t] = {}]
    /\ satisfied_forbids' = [satisfied_forbids EXCEPT ![t] = {}]
    /\ errors' = [errors EXCEPT ![t] = {}]
    /\ UNCHANGED <<result, AUTHORIZER>>

\* the call of the thread t returns v
ThreadReturns(t, v) ==
    /\ result' = [result EXCEPT ![t] = Append(@, v)]
    /\ pc' = [pc EXCEPT ![t] = "idle"]

\* serde_json::from_str and its error arm, on the thread t
ThreadDeserialize(t) ==
    /\ pc[t] = "start"
    /\ \E hashers \in HasherChoices(Last(input[t])) :
         LET r == serde_from_str(Last(input[t]), hashers) IN
         IF r.ok
         THEN /\ call' = [call EXCEPT ![t] = Some(r.val)]
              /\ pc' = [pc EXCEPT ![t] = "deserialized"]
              /\ UNCHANGED result
         ELSE /\ ThreadReturns(t, InterfaceResult_fail_internally(
                                    "error parsing call: " \o r.errs))
              /\ UNCHANGED call
    /\ UNCHANGED <<input, request, policies, entities, pending,
                   satisfied_permits, satisfied_forbids, errors, AUTHORIZER>>

\* is_authorized on the thread t: call.get_components(), its Err arm, and
\* AUTHORIZER.with in its Ok arm
ThreadGetComponents(t) ==
    /\ pc[t] = "deserialized"
    /\ LET c == get_components(Unwrap(call[t])) IN
         IF c.ok
         THEN /\ request' = [request EXCEPT ![t] = Some(c.val.request)]
              /\ policies' = [policies EXCEPT ![t] = c.val.policies]
              /\ entities' = [entities EXCEPT ![t] = c.val.entities]
              /\ pending' = [pending EXCEPT
                                ![t] = DOMAIN c.val.policies.policies]
              /\ AUTHORIZER' = [AUTHORIZER EXCEPT ![thread_local(t)] =
                                    LocalKey_with(@, Authorizer_new)]
              /\ pc' = [pc EXCEPT ![t] = "authorizing"]
              /\ UNCHANGED result
         ELSE /\ ThreadReturns(t, answer_to_result(ParseFailed(c.errs)))
              /\ UNCHANGED <<request, policies, entities, pending,
                             AUTHORIZER>>
    /\ UNCHANGED <<input, call, satisfied_permits, satisfied_forbids, errors>>

\* the bags of the authorizer on the thread t
ThreadBags(t) ==
    [satisfied_permits |-> satisfied_permits[t],
     satisfied_forbids |-> satisfied_forbids[t],
     errors |-> errors[t]]

\* the authorizer of the thread t evaluates one more policy of the set
ThreadEvaluatePolicy(t, id) ==
    /\ pc[t] = "authorizing"
    /\ id \in pending[t]
    /\ LET bags == authorizer_step(ThreadBags(t), id, policies[t],
                                   Unwrap(request[t]))
       IN /\ satisfied_permits' =
                [satisfied_permits EXCEPT ![t] = bags.satisfied_permits]
          /\ satisfied_forbids' =
                [satisfied_forbids EXCEPT ![t] = bags.satisfied_forbids]
          /\ errors' = [errors EXCEPT ![t] = bags.errors]
    /\ pending' = [pending EXCEPT ![t] = @ \ {id}]
    /\ UNCHANGED <<input, pc, call, request, policies, entities, result,
                   AUTHORIZER>>

\* every policy is evaluated: the decision, converted and returned
ThreadRespond(t) ==
    /\ pc[t] = "authorizing"
    /\ pending[t] = {}
    /\ ThreadReturns(t, answer_to_result(Success(InterfaceResponse_from(
                            authorizer_decide(ThreadBags(t))))))
    /\ UNCHANGED <<input, call, request, policies, entities, pending,
                   satisfied_permits, satisfied_forbids, errors, AUTHORIZER>>

ThreadNext ==
    \/ \E t \in Threads, in \in ThreadInputs : Call(t, in)
    \/ \E t \in Threads : ThreadDeserialize(t)
    \/ \E t \in Threads : ThreadGetComponents(t)
    \/ \E t \in Threads : \E id \in pending[t] : ThreadEvaluatePolicy(t, id)
    \/ \E t \in Threads : ThreadRespond(t)

ThreadSpec == ThreadInit /\ [][ThreadNext]_vars

(***************************************************************************)
(* C28  Calls to json_is_authorized from several threads do not interfere: *)
(* each thread uses its own authorizer instance, created by the first call *)
(* of the thread that reaches the authorizer; no step of a thread changes  *)
(* anything that another thread holds; and every call returns what the     *)
(* same call returns when it runs alone, whatever the interleaving.  The   *)
(* instance is not created on the first call of the thread when that call  *)
(* fails before the authorizer: in deserialization or in get_components.   *)
(***************************************************************************)
\* all that the thread t holds
ThreadState(t) ==
    <<input[t], pc[t], call[t], request[t], policies[t], entities[t],
      pending[t], satisfied_permits[t], satisfied_forbids[t], errors[t],
      result[t], AUTHORIZER[t]>>

\* the i-th call of the thread t has its components built
BuildsComponents(t, i) ==
    \E hashers \in HasherChoices(input[t][i]) :
        /\ serde_from_str(input[t][i], hashers).ok
        /\ get_components(serde_from_str(input[t][i], hashers).val).ok

\* a call of the thread t has reached the authorizer
ReachedAuthorizer(t) ==
    \E i \in 1..Len(input[t]) :
        /\ BuildsComponents(t, i)
        /\ i = Len(input[t]) => pc[t] \in {"authorizing", "idle"}

\* what the call with the string in can return when it runs alone: the
\* result under one of the iteration orders of its HashMaps
ResultsAlone(in) ==
    {json_is_authorized(in, hashers) : hashers \in HasherChoices(in)}

\* every call that has returned has returned what it returns alone
ReturnsAsAlone ==
    \A t \in Threads :
        /\ Len(result[t]) = IF pc[t] = "idle" THEN Len(input[t])
                            ELSE Len(input[t]) - 1
        /\ \A i \in 1..Len(result[t]) :
                result[t][i] \in ResultsAlone(input[t][i])

\* a thread has an authorizer from its first call that reaches it on, and
\* is in the authorizer only with its own
OwnAuthorizer ==
    \A t \in Threads :
        /\ IsSome(AUTHORIZER[t]) <=> ReachedAuthorizer(t)
        /\ pc[t] = "authorizing" => AUTHORIZER[t] = Some(Authorizer_new)

\* a step changes what one thread holds, and nothing of the others
StepOfOneThread ==
    \E t \in Threads :
        \A u \in Threads \ {t} : ThreadState(u)' = ThreadState(u)

C28_ThreadsDoNotInterfere ==
    [](ReturnsAsAlone /\ OwnAuthorizer) /\ [][StepOfOneThread]_vars

\* the claim as it is worded: a thread has its authorizer from its first
\* call on, so when its first call has returned
CreatedOnFirstCall ==
    \A t \in Threads :
        /\ Len(input[t]) = 0 => ~IsSome(AUTHORIZER[t])
        /\ Len(result[t]) >= 1 => IsSome(AUTHORIZER[t])
        /\ pc[t] = "authorizing" => AUTHORIZER[t] = Some(Authorizer_new)

C28_Original ==
    [](ReturnsAsAlone /\ CreatedOnFirstCall) /\ [][StepOfOneThread]_vars

\* both threads are in the authorizer, on different calls, each with one
\* of its two policies evaluated, after the first thread has returned from
\* an earlier call that did not reach the authorizer
C28_Witness ==
    /\ pc["t1"] = "authorizing"
    /\ pc["t2"] = "authorizing"
    /\ Last(input["t1"]) # Last(input["t2"])
    /\ Cardinality(pending["t1"]) = 1
    /\ Cardinality(pending["t2"]) = 1
    /\ Len(result["t1"]) = 1
    /\ Len(result["t2"]) = 0
    /\ input["t1"][1] = Garbage
    /\ result["t1"][1] \in ResultsAlone(input["t1"][1])
    /\ AUTHORIZER["t1"] = Some(Authorizer_new)
    /\ AUTHORIZER["t2"] = Some(Authorizer_new)

(***************************************************************************)
(* C29  When the entities or the policies of a slice do not parse,         *)
(* try_into still runs every template instantiation, against an empty      *)
(* policy set: an instantiation whose ids and links parse fails to link,   *)
(* its template not being in the set, and adds one error "Error            *)
(* instantiating template: ..." to the parse errors.                       *)
(***************************************************************************)
\* the entities or the policies of the slice do not parse
ParseFails(sl, schema) == EntityErrors(sl, schema) \o PolicyErrors(sl) # <<>>

\* the links of an instantiation all parse
LinksParse(inst) ==
    \A k \in DOMAIN inst.instantiations :
        /\ inst.instantiations[k].slot \in {"?principal", "?resource"}
        /\ IsValidTypeName(inst.instantiations[k].value.ty)

\* the error of linking a template that the policy set does not have
TemplateAbsentError(inst) ==
    "Error instantiating template: unable to link template: "
    \o "failed to find a template with id '" \o inst.template_id \o "'"

\* the errors of the instantiations from the i-th on when they are run
\* against the empty policy set
RECURSIVE ErrorsOnEmptySet(_, _)
ErrorsOnEmptySet(insts, i) ==
    IF i > Len(insts) THEN <<>>
    ELSE (IF LinksParse(insts[i]) THEN <<TemplateAbsentError(insts[i])>>
          ELSE parse_instantiations(PolicySet_new, insts[i]).errs)
         \o ErrorsOnEmptySet(insts, i + 1)

\* the instantiations of the slice whose links parse
Linkable(sl) ==
    {i \in DOMAIN InstantiationsOf(sl) : LinksParse(InstantiationsOf(sl)[i])}

C29_InstantiationsRunAfterParseFailure ==
    (Done /\ IsSome(call) /\ RequestBuilt(Unwrap(call))
     /\ ParseFails(Unwrap(call).slice, CallSchema(Unwrap(call)))) =>
        /\ Unwrap(result).tag = "Failure"
        /\ Unwrap(result).errors
             = EntityErrors(Unwrap(call).slice, CallSchema(Unwrap(call)))
               \o PolicyErrors(Unwrap(call).slice)
               \o ErrorsOnEmptySet(InstantiationsOf(Unwrap(call).slice), 1)
        /\ Cardinality({k \in DOMAIN Unwrap(result).errors :
                StartsWith(Unwrap(result).errors[k],
                           "Error instantiating template")})
             = Cardinality(Linkable(Unwrap(call).slice))

\* a slice whose entities are refused and whose policies parse, with a
\* template and a link to it that is in order: the answer has the error of
\* the entities and the error of the link, the template not being found
C29_Witness ==
    /\ Done
    /\ IsSome(call)
    /\ RequestBuilt(Unwrap(call))
    /\ EntityErrors(Unwrap(call).slice, CallSchema(Unwrap(call))) # <<>>
    /\ PolicyErrors(Unwrap(call).slice) = <<>>
    /\ Linkable(Unwrap(call).slice) = {1}
    /\ InstantiationsOf(Unwrap(call).slice)[1].template_id
         \in DOMAIN slice_policy_set(Unwrap(call).slice).val.templates
    /\ Unwrap(result).errors
         = EntityErrors(Unwrap(call).slice, CallSchema(Unwrap(call)))
           \o <<TemplateAbsentError(InstantiationsOf(Unwrap(call).slice)[1])>>

====
